---------------------------- MODULE Spec2Model ----------------------------
(***************************************************************************)
(* A model of kqlfilter.go: the Spanner SQL lowering of a flat Filter      *)
(* (filter_spanner.go), the constrained-equality probe (hasmustequal.go)   *)
(* and the Elasticsearch lowering of an AST (elastic package).             *)
(*                                                                         *)
(* Go strings that the code inspects character by character (clause        *)
(* values, literal values) are sequences of one-character strings.  Names  *)
(* that the code only compares or concatenates (field names, column names, *)
(* operators) are TLA+ strings.                                            *)
(***************************************************************************)
EXTENDS Integers, Sequences, FiniteSets, TLC

(***************************************************************************)
(* Bounds of the model.                                                    *)
(***************************************************************************)
MaxClauses == 2
MaxValues == 2

(***************************************************************************)
(* Go values of type `any`.  Every value is a record with the same three   *)
(* fields: t, the dynamic type; v, the payload; x, a second payload (the   *)
(* NaN flag of a float64, the location of a time.Time, "" otherwise).      *)
(***************************************************************************)
GoNil == [t |-> "nil", v |-> <<>>, x |-> ""]
GoString(s) == [t |-> "string", v |-> s, x |-> ""]
GoInt64(n) == [t |-> "int64", v |-> n, x |-> ""]
GoFloat64(n) == [t |-> "float64", v |-> n, x |-> ""]
GoNaN == [t |-> "float64", v |-> 0, x |-> "NaN"]
GoBool(b) == [t |-> "bool", v |-> b, x |-> ""]
GoTime(instant, loc) == [t |-> "time.Time", v |-> instant, x |-> loc]
GoSlice(elemType, elems) == [t |-> "[]" \o elemType, v |-> elems, x |-> ""]

IsSliceType(t) == t \in {"[]string", "[]int64", "[]float64", "[]bool", "[]time.Time", "[]any"}

\* Go's == on two values of the same comparable type, as a map[T]bool key
\* lookup applies it: a NaN is equal to nothing, itself included.
GoEq(a, b) == a = b /\ ~(a.t = "float64" /\ a.x = "NaN")

(***************************************************************************)
(* Errors are values: the message pattern, the field it names and the     *)
(* other arguments of the message (an operator, a required field, a type   *)
(* name, a raw value), a sequence of strings.                              *)
(***************************************************************************)
NoErr == [kind |-> "nil", field |-> "", arg |-> <<>>]
Err(kind, field, arg) == [kind |-> kind, field |-> field, arg |-> arg]

(***************************************************************************)
(* strconv and time on the strings the model feeds them.                   *)
(***************************************************************************)
Digits == <<"0", "1", "2", "3", "4", "5", "6", "7", "8", "9">>

IsDigit(c) == \E i \in 1..10 : Digits[i] = c

DigitVal(c) == (CHOOSE i \in 1..10 : Digits[i] = c) - 1

RECURSIVE DecimalVal(_)
DecimalVal(s) == IF s = <<>> THEN 0
                 ELSE 10 * DecimalVal(SubSeq(s, 1, Len(s) - 1)) + DigitVal(s[Len(s)])

AllDigits(s) == \A i \in 1..Len(s) : IsDigit(s[i])

\* strconv.ParseInt(value, 10, 64): an optional sign and at least one digit.
\* (The 64-bit range check is not modelled: no modelled string has more
\* than a few digits.)
ParseInt(s) ==
    LET signed == Len(s) > 0 /\ s[1] \in {"+", "-"}
        body == IF signed THEN Tail(s) ELSE s
        neg == signed /\ s[1] = "-"
    IN IF body = <<>> \/ ~AllDigits(body)
       THEN [ok |-> FALSE, v |-> GoNil]
       ELSE [ok |-> TRUE,
             v |-> GoInt64(IF neg THEN 0 - DecimalVal(body) ELSE DecimalVal(body))]

ToLowerChar(c) == CASE c = "N" -> "n"
                    [] c = "A" -> "a"
                    [] OTHER -> c

\* strconv.ParseFloat(value, 64) on signed decimal integers and on "nan" in
\* any letter case (strconv's special()); -0 and 0 are equal floats.
ParseFloat(s) ==
    LET lower == [i \in 1..Len(s) |-> ToLowerChar(s[i])]
        int == ParseInt(s)
    IN IF lower = <<"n", "a", "n">> THEN [ok |-> TRUE, v |-> GoNaN]
       ELSE IF int.ok THEN [ok |-> TRUE, v |-> GoFloat64(int.v.v)]
       ELSE [ok |-> FALSE, v |-> GoNil]

\* strconv.ParseBool: 1, t, T, TRUE, true, True and 0, f, F, FALSE, false, False.
ParseBool(s) ==
    IF s \in {<<"1">>, <<"t">>, <<"T">>, <<"T", "R", "U", "E">>,
              <<"t", "r", "u", "e">>, <<"T", "r", "u", "e">>}
    THEN [ok |-> TRUE, v |-> GoBool(TRUE)]
    ELSE IF s \in {<<"0">>, <<"f">>, <<"F">>, <<"F", "A", "L", "S", "E">>,
                   <<"f", "a", "l", "s", "e">>, <<"F", "a", "l", "s", "e">>}
    THEN [ok |-> TRUE, v |-> GoBool(FALSE)]
    ELSE [ok |-> FALSE, v |-> GoNil]

\* Two RFC 3339 timestamps, one second apart, and the first one again with
\* a numeric zero offset instead of Z.
TS1 == <<"2", "0", "2", "0", "-", "0", "1", "-", "0", "1", "T",
         "0", "0", ":", "0", "0", ":", "0", "0", "Z">>
TS2 == <<"2", "0", "2", "0", "-", "0", "1", "-", "0", "1", "T",
         "0", "0", ":", "0", "0", ":", "0", "1", "Z">>
TS1Offset == SubSeq(TS1, 1, 19) \o <<"+", "0", "0", ":", "0", "0">>

\* time.Parse(time.RFC3339, value) on the timestamps above: the instant in
\* seconds after TS1, and the location (Z gives UTC, a numeric offset gives
\* the local or a fixed zone, never UTC).
ParseTime(s) ==
    CASE s = TS1 -> [ok |-> TRUE, v |-> GoTime(0, "UTC")]
      [] s = TS2 -> [ok |-> TRUE, v |-> GoTime(1, "UTC")]
      [] s = TS1Offset -> [ok |-> TRUE, v |-> GoTime(0, "+00:00")]
      [] OTHER -> [ok |-> FALSE, v |-> GoNil]

(***************************************************************************)
(* filter.go: Clause and Filter.  A Filter is its sequence of clauses.     *)
(***************************************************************************)
Clause(field, operator, values) ==
    [Field |-> field, Operator |-> operator, Values |-> values]

(***************************************************************************)
(* filter_spanner.go: FilterToSpannerFieldConfig.  MapValue names the hook *)
(* ("nil": none).  ZeroConfig is Go's zero value of the struct, which is   *)
(* what a failed map lookup leaves in fieldConfig.                         *)
(***************************************************************************)
ZeroConfig ==
    [ColumnName |-> "", ColumnType |-> "UNSPECIFIED", Required |-> FALSE,
     Requires |-> <<>>, AllowPrefixMatch |-> FALSE, AllowSuffixMatch |-> FALSE,
     AllowCaseInsensitiveMatch |-> FALSE, AllowMultipleValues |-> FALSE,
     AllowRanges |-> FALSE, AllowContains |-> FALSE, AllowContainedBy |-> FALSE,
     AllowNegation |-> FALSE, Aliases |-> <<>>, MapValue |-> "nil",
     Ignore |-> FALSE]

\* FilterToSpannerFieldColumnType.String()
ColumnTypeString(c) ==
    IF c \in {"STRING", "INT64", "FLOAT64", "BOOL", "TIMESTAMP"} THEN c ELSE "???"

Contains(seq, e) == \E i \in 1..Len(seq) : seq[i] = e

\* The MapValue hooks of the model (user code): "enum" accepts a and b and
\* rejects every other value, "upper" maps a to A, "count" returns an int64,
\* "strings" returns a []string, "null" returns (nil, nil).
ApplyMapValue(hook, s) ==
    CASE hook = "enum" ->
           IF s \in {<<"a">>, <<"b">>}
           THEN [err |-> NoErr, v |-> GoString(s)]
           ELSE [err |-> Err("illegal value provided", "", <<>>), v |-> GoNil]
      [] hook = "upper" ->
           [err |-> NoErr, v |-> GoString(IF s = <<"a">> THEN <<"A">> ELSE s)]
      [] hook = "count" -> [err |-> NoErr, v |-> GoInt64(Len(s))]
      [] hook = "strings" -> [err |-> NoErr, v |-> GoSlice("string", <<GoString(s)>>)]
      [] OTHER -> [err |-> NoErr, v |-> GoNil]

\* FilterToSpannerFieldConfig.convertValue
convertValue(f, value) ==
    CASE f.ColumnType = "INT64" ->
           LET r == ParseInt(value)
           IN IF r.ok THEN [err |-> NoErr, v |-> r.v]
              ELSE [err |-> Err("invalid INT64 value", "", value), v |-> GoNil]
      [] f.ColumnType = "FLOAT64" ->
           LET r == ParseFloat(value)
           IN IF r.ok THEN [err |-> NoErr, v |-> r.v]
              ELSE [err |-> Err("invalid FLOAT64 value", "", value), v |-> GoNil]
      [] f.ColumnType = "BOOL" ->
           LET r == ParseBool(value)
           IN IF r.ok THEN [err |-> NoErr, v |-> r.v]
              ELSE [err |-> Err("invalid BOOL value", "", value), v |-> GoNil]
      [] f.ColumnType = "TIMESTAMP" ->
           LET r == ParseTime(value)
           IN IF r.ok THEN [err |-> NoErr, v |-> r.v]
              ELSE [err |-> Err("invalid TIMESTAMP value", "", value), v |-> GoNil]
      [] f.ColumnType = "STRING" -> [err |-> NoErr, v |-> GoString(value)]
      [] OTHER ->
           IF value = <<"0">> THEN [err |-> NoErr, v |-> GoInt64(0)]
           ELSE IF value = <<"1">> THEN [err |-> NoErr, v |-> GoInt64(1)]
           ELSE [err |-> NoErr, v |-> GoString(value)]

\* unwrapSlice: a slice of one element is that element.
unwrapSlice(v) ==
    IF IsSliceType(v.t) /\ Len(v.v) = 1 THEN v.v[1] ELSE v

\* The element type of the slice mapValues builds for a column type.
SliceElemType(columnType) ==
    CASE columnType = "INT64" -> "int64"
      [] columnType = "FLOAT64" -> "float64"
      [] columnType = "BOOL" -> "bool"
      [] columnType = "TIMESTAMP" -> "time.Time"
      [] OTHER -> "string"

\* The iteration at which a loop returns: the first position of failed
\* that holds TRUE, or 0.
FirstIndex(failed) ==
    IF \E i \in 1..Len(failed) : failed[i]
    THEN CHOOSE i \in 1..Len(failed) : failed[i] /\ \A j \in 1..(i - 1) : ~failed[j]
    ELSE 0

\* FilterToSpannerFieldConfig.mapValues.  st is "ok", "err" or "panic" (the
\* nil dereference of reflect.TypeOf(nil).Kind()).
mapValues(f, values) ==
    LET n == Len(values)
        mapped == [i \in 1..n |-> ApplyMapValue(f.MapValue, values[i])]
        hookErr == FirstIndex([i \in 1..n |-> mapped[i].err # NoErr])
        collected == IF f.MapValue # "nil"
                     THEN GoSlice("any", [i \in 1..n |-> mapped[i].v])
                     ELSE GoSlice("string", [i \in 1..n |-> GoString(values[i])])
        outputValue == unwrapSlice(collected)
        allowSlice == f.AllowMultipleValues \/ f.AllowContains \/ f.AllowContainedBy
        conv == [i \in 1..Len(outputValue.v) |-> convertValue(f, outputValue.v[i].v)]
        convErr == FirstIndex([i \in 1..Len(outputValue.v) |-> conv[i].err # NoErr])
    IN IF f.MapValue # "nil" /\ hookErr # 0
       THEN [st |-> "err", err |-> mapped[hookErr].err, v |-> GoNil]
       ELSE IF ~allowSlice /\ outputValue.t = "nil"
       THEN [st |-> "panic", err |-> NoErr, v |-> GoNil]
       ELSE IF ~allowSlice /\ IsSliceType(outputValue.t)
       THEN [st |-> "err", err |-> Err("multiple values are not allowed", "", <<>>),
             v |-> GoNil]
       ELSE IF outputValue.t = "string"
       THEN LET r == convertValue(f, outputValue.v)
            IN IF r.err # NoErr THEN [st |-> "err", err |-> r.err, v |-> GoNil]
               ELSE [st |-> "ok", err |-> NoErr, v |-> r.v]
       ELSE IF outputValue.t = "[]string"
               /\ f.ColumnType \in {"INT64", "FLOAT64", "BOOL", "TIMESTAMP"}
       THEN IF convErr # 0
            THEN [st |-> "err", err |-> conv[convErr].err, v |-> GoNil]
            ELSE [st |-> "ok", err |-> NoErr,
                  v |-> GoSlice(SliceElemType(f.ColumnType),
                                [i \in 1..Len(outputValue.v) |-> conv[i].v])]
       ELSE [st |-> "ok", err |-> NoErr, v |-> outputValue]

\* parseAnyToSlice[T]: elemType is T.
parseAnyToSlice(elemType, s) ==
    CASE s.t = "nil" -> [err |-> NoErr, v |-> GoSlice(elemType, <<>>)]
      [] s.t = elemType -> [err |-> NoErr, v |-> GoSlice(elemType, <<s>>)]
      [] s.t = "[]" \o elemType -> [err |-> NoErr, v |-> s]
      [] s.t = "[]any" ->
           IF \E i \in 1..Len(s.v) : s.v[i].t # elemType
           THEN [err |-> Err("values' type in any slice doesn't match the expectation",
                             "", <<elemType>>),
                 v |-> GoNil]
           ELSE [err |-> NoErr, v |-> GoSlice(elemType, s.v)]
      [] OTHER -> [err |-> Err("cannot parse input to a slice", "", <<>>), v |-> GoNil]

\* uniqueSliceElements: an element is appended unless the seen map holds it.
RECURSIVE uniqueFrom(_, _)
uniqueFrom(inputSlice, uniqueSlice) ==
    IF inputSlice = <<>> THEN uniqueSlice
    ELSE LET element == Head(inputSlice)
             seen == \E i \in 1..Len(uniqueSlice) : GoEq(uniqueSlice[i], element)
         IN uniqueFrom(Tail(inputSlice),
                       IF seen THEN uniqueSlice ELSE Append(uniqueSlice, element))

\* A deduplication that removes nothing.
uniqueSliceElementsKeepsAll(inputSlice) == inputSlice

uniqueSliceElements(inputSlice) == uniqueFrom(inputSlice, <<>>)

\* strings.ReplaceAll(s, old, new) for a one-character old.
RECURSIVE ReplaceAll(_, _, _)
ReplaceAll(s, old, new) ==
    IF s = <<>> THEN <<>>
    ELSE (IF Head(s) = old THEN new ELSE <<Head(s)>>) \o ReplaceAll(Tail(s), old, new)

escapePrefixSuffixSpecialChars(s) ==
    LET s1 == ReplaceAll(s, "\\", <<"\\", "\\">>)
        s2 == ReplaceAll(s1, "_", <<"\\", "_">>)
    IN ReplaceAll(s2, "%", <<"\\", "%">>)

HasSuffix(s, suffix) ==
    Len(s) >= Len(suffix) /\ SubSeq(s, Len(s) - Len(suffix) + 1, Len(s)) = suffix

HasPrefix(s, prefix) ==
    Len(s) >= Len(prefix) /\ SubSeq(s, 1, Len(prefix)) = prefix

(***************************************************************************)
(* Filter.ToSpannerSQL.  A predicate is the format of its Sprintf and the  *)
(* arguments: fmt "cmp" is "%s%s@%s", "lower" is "LOWER(%s)%sLOWER(@%s)",  *)
(* "in" is "%s %s UNNEST(@%s)", "containedby" and "contains" are the two   *)
(* ARRAY_LENGTH formats.  A placeholder name is Sprintf("%s%d", "KQL", i). *)
(***************************************************************************)
\* A lowering that names every placeholder KQL0.
ParamNameConstant(paramIndex) == <<"KQL", 0>>

ParamName(paramIndex) == <<"KQL", paramIndex>>

Pred(fmt, columnName, operator, paramName) ==
    [fmt |-> fmt, col |-> columnName, op |-> operator, param |-> paramName]

NoPred == Pred("", "", "", ParamName(0))

\* The configs a clause's field resolves to: the map entry of that key, or
\* else an entry that lists the field as an alias.  The alias search ranges
\* over a Go map, whose iteration order is not defined: when several entries
\* list the alias, any of them can be the first one met.
Resolutions(fieldConfigs, field) ==
    LET byAlias == {k \in DOMAIN fieldConfigs : Contains(fieldConfigs[k].Aliases, field)}
    IN IF field \in DOMAIN fieldConfigs
       THEN {[ok |-> TRUE, cfg |-> fieldConfigs[field]]}
       ELSE IF byAlias # {}
       THEN {[ok |-> TRUE, cfg |-> fieldConfigs[k]] : k \in byAlias}
       ELSE {[ok |-> FALSE, cfg |-> ZeroConfig]}

\* A boolean literal of any value.
IsBooleanLiteralOfAnyValue(clause) ==
    clause.Field = "1" /\ clause.Operator = "=" /\ Len(clause.Values) = 1

IsBooleanLiteralClause(clause) ==
    /\ clause.Field = "1"
    /\ clause.Operator = "="
    /\ Len(clause.Values) = 1
    /\ clause.Values[1] \in {<<"1">>, <<"0">>}

\* The Requires loop of one clause: the first required field that no clause
\* of the filter satisfies, or 0.
MissingRequires(clauses, fieldConfig) ==
    FirstIndex([i \in 1..Len(fieldConfig.Requires) |->
                  ~\E j \in 1..Len(clauses) :
                      \/ clauses[j].Field = fieldConfig.Requires[i]
                      \/ Contains(fieldConfig.Aliases, clauses[j].Field)])

StepErr(err) == [st |-> "err", hasPred |-> FALSE, pred |-> NoPred, value |-> GoNil, err |-> err]
StepPanic == [st |-> "panic", hasPred |-> FALSE, pred |-> NoPred, value |-> GoNil, err |-> NoErr]
\* An ignored clause that takes a placeholder all the same.
StepContinueTakesPlaceholder ==
    [st |-> "ok", hasPred |-> FALSE, pred |-> NoPred, value |-> GoNil, err |-> NoErr]

StepContinue == [st |-> "continue", hasPred |-> FALSE, pred |-> NoPred, value |-> GoNil, err |-> NoErr]
StepEmit(pred, value) == [st |-> "ok", hasPred |-> TRUE, pred |-> pred, value |-> value, err |-> NoErr]
StepParamOnly(value) == [st |-> "ok", hasPred |-> FALSE, pred |-> NoPred, value |-> value, err |-> NoErr]

\* case "IN", "<@", ">@"
lowerArrayOperator(clause, fieldConfig, columnName, mappedValue, paramName) ==
    LET operator == clause.Operator
        elemType == SliceElemType(fieldConfig.ColumnType)
        parsed == parseAnyToSlice(elemType, mappedValue)
        unique == GoSlice(elemType, uniqueSliceElements(parsed.v.v))
    IN IF fieldConfig.ColumnType \notin {"STRING", "INT64", "FLOAT64", "TIMESTAMP"}
       THEN StepErr(Err("operator %s not supported for field type %s", "",
                        <<operator, ColumnTypeString(fieldConfig.ColumnType)>>))
       ELSE IF parsed.err # NoErr THEN StepErr(parsed.err)
       ELSE IF operator = "IN"
       THEN StepEmit(Pred("in", columnName, operator, paramName), unique)
       ELSE IF operator = "<@"
       THEN IF ~fieldConfig.AllowContainedBy
            THEN StepErr(Err("operator %s not supported for field: %s", clause.Field,
                             <<operator>>))
            ELSE StepEmit(Pred("containedby", columnName, "", paramName), unique)
       ELSE IF ~fieldConfig.AllowContains
            THEN StepErr(Err("operator %s not supported for field: %s", clause.Field,
                             <<operator>>))
            ELSE StepEmit(Pred("contains", columnName, "", paramName), unique)

\* case "=", "!="
lowerEquality(clause, fieldConfig, columnName, mappedValue, paramName) ==
    LET isString == mappedValue.t = "string"
        mappedString == mappedValue.v
        needsPrefixMatch == /\ isString
                            /\ fieldConfig.AllowPrefixMatch
                            /\ HasSuffix(mappedString, <<"*">>)
                            /\ ~HasSuffix(mappedString, <<"\\", "*">>)
        needsSuffixMatch == /\ isString
                            /\ fieldConfig.AllowSuffixMatch
                            /\ HasPrefix(mappedString, <<"*">>)
        forceLowercase == needsPrefixMatch \/ needsSuffixMatch
        operator == IF ~forceLowercase THEN clause.Operator
                    ELSE IF clause.Operator = "!=" THEN " NOT LIKE " ELSE " LIKE "
        escaped == escapePrefixSuffixSpecialChars(mappedString)
        n == Len(escaped)
        \* escaped[1:n-1] panics when 1 > n-1
        outOfRange == needsPrefixMatch /\ needsSuffixMatch /\ n < 2
        value == IF needsPrefixMatch /\ needsSuffixMatch
                 THEN GoString(<<"%">> \o SubSeq(escaped, 2, n - 1) \o <<"%">>)
                 ELSE IF needsPrefixMatch
                 THEN GoString(SubSeq(escaped, 1, n - 1) \o <<"%">>)
                 ELSE IF needsSuffixMatch
                 THEN GoString(<<"%">> \o SubSeq(escaped, 2, n))
                 ELSE mappedValue
    IN IF ~fieldConfig.AllowNegation /\ clause.Operator = "!="
       THEN StepErr(Err("operator %s not supported for field: %s", clause.Field,
                        <<clause.Operator>>))
       ELSE IF outOfRange THEN StepPanic
       ELSE IF forceLowercase /\ fieldConfig.AllowCaseInsensitiveMatch
       THEN StepEmit(Pred("lower", columnName, operator, paramName), value)
       ELSE StepEmit(Pred("cmp", columnName, operator, paramName), value)

\* case ">=", "<=", ">", "<"
lowerRange(clause, fieldConfig, columnName, mappedValue, paramName) ==
    IF ~fieldConfig.AllowRanges
    THEN StepErr(Err("operator %s not supported for field: %s", clause.Field,
                     <<clause.Operator>>))
    ELSE IF fieldConfig.ColumnType \notin {"INT64", "FLOAT64", "TIMESTAMP"}
    THEN StepErr(Err("operator %s not supported for field type %s", "",
                     <<clause.Operator, ColumnTypeString(fieldConfig.ColumnType)>>))
    ELSE StepEmit(Pred("cmp", columnName, clause.Operator, paramName), mappedValue)

\* One iteration of the loop over f.Clauses, for the config the field
\* resolves to.  st is "continue" (an ignored field), "ok" (a parameter, and
\* with hasPred a predicate), "err" or "panic".  An operator that no case
\* of the switch names adds a parameter and no predicate.
lowerClause(clauses, clause, resolved, paramIndex) ==
    LET fieldConfig == resolved.cfg
        missing == MissingRequires(clauses, fieldConfig)
        columnName == IF fieldConfig.ColumnName = "" THEN clause.Field
                      ELSE fieldConfig.ColumnName
        mapped == mapValues(fieldConfig, clause.Values)
        operator == clause.Operator
        paramName == ParamName(paramIndex)
    IN IF ~resolved.ok /\ ~IsBooleanLiteralClause(clause)
       THEN StepErr(Err("unknown field: %s", clause.Field, <<>>))
       ELSE IF fieldConfig.Ignore THEN StepContinue
       ELSE IF missing # 0
       THEN StepErr(Err("%s can only be used in this filter in combination with %s",
                        clause.Field, <<fieldConfig.Requires[missing]>>))
       ELSE IF mapped.st = "panic" THEN StepPanic
       ELSE IF mapped.st = "err"
       THEN StepErr(Err("field %s: " \o mapped.err.kind, clause.Field, mapped.err.arg))
       ELSE IF Len(clause.Values) > 1 /\ operator \notin {"IN", "<@", ">@"}
       THEN StepErr(Err("operator %s doesn't support multiple values in field: %s",
                        clause.Field, <<operator>>))
       ELSE IF operator \in {"IN", "<@", ">@"}
       THEN lowerArrayOperator(clause, fieldConfig, columnName, mapped.v, paramName)
       ELSE IF operator \in {"=", "!="}
       THEN lowerEquality(clause, fieldConfig, columnName, mapped.v, paramName)
       ELSE IF operator \in {">=", "<=", ">", "<"}
       THEN lowerRange(clause, fieldConfig, columnName, mapped.v, paramName)
       ELSE StepParamOnly(mapped.v)

\* The fields the loop over the Required configs can report missing: the
\* loop ranges over the Go map and returns at the first one it meets.
MissingRequired(clauses, fieldConfigs) ==
    {field \in DOMAIN fieldConfigs :
        /\ fieldConfigs[field].Required
        /\ ~\E j \in 1..Len(clauses) :
              \/ clauses[j].Field = field
              \/ Contains(fieldConfigs[field].Aliases, clauses[j].Field)}

(***************************************************************************)
(* The nodes of an AST.  Every node is a record with the same fields:      *)
(* kind names the Go type (AndNode, OrNode, NotNode, IsNode, RangeNode,    *)
(* LiteralNode; "nil" is the nil Node), Identifier and Operator are the    *)
(* fields of IsNode and RangeNode, Value is the string of a LiteralNode,   *)
(* and Nodes holds the child nodes: the Nodes of an AndNode or OrNode, the *)
(* Expr of a NotNode, the Value of an IsNode or RangeNode.                 *)
(***************************************************************************)
Node(kind, identifier, operator, value, nodes) ==
    [kind |-> kind, Identifier |-> identifier, Operator |-> operator,
     Value |-> value, Nodes |-> nodes]

NilNode == Node("nil", "", "", <<>>, <<>>)
LiteralNode(value) == Node("Literal", "", "", value, <<>>)
IsNode(identifier, value) == Node("Is", identifier, "", <<>>, <<value>>)
RangeNode(identifier, operator, value) == Node("Range", identifier, operator, <<>>, <<value>>)
NotNode(expr) == Node("Not", "", "", <<>>, <<expr>>)
AndNode(nodes) == Node("And", "", "", <<>>, nodes)
OrNode(nodes) == Node("Or", "", "", <<>>, nodes)

\* values = append(values, values_...) over a loop: the lists, one after the other.
RECURSIVE Concat(_)
Concat(lists) == IF lists = <<>> THEN <<>> ELSE Head(lists) \o Concat(Tail(lists))

(***************************************************************************)
(* hasmustequal.go.  A nil []string and an empty one are both <<>>: the    *)
(* code never returns an empty slice that is not nil.                      *)
(***************************************************************************)
hasMustEqualIsNode(ast, field) ==
    LET value == ast.Nodes[1]
    IN IF ast.Identifier # field THEN <<>>
       ELSE IF value.kind = "Literal" THEN <<value.Value>>
       ELSE IF value.kind = "Or"
       THEN Concat([i \in 1..Len(value.Nodes) |->
                      IF value.Nodes[i].kind = "Literal"
                      THEN <<value.Nodes[i].Value>> ELSE <<>>])
       ELSE <<>>

\* Children that are not IsNodes are skipped (continue).
hasMustEqualAndNode(ast, field) ==
    Concat([i \in 1..Len(ast.Nodes) |->
              IF ast.Nodes[i].kind = "Is"
              THEN hasMustEqualIsNode(ast.Nodes[i], field) ELSE <<>>])

\* An IsNode child without values ends the loop with nil; children that
\* are not IsNodes are skipped (continue).
hasMustEqualOrNode(ast, field) ==
    IF \E i \in 1..Len(ast.Nodes) :
          /\ ast.Nodes[i].kind = "Is"
          /\ hasMustEqualIsNode(ast.Nodes[i], field) = <<>>
    THEN <<>>
    ELSE Concat([i \in 1..Len(ast.Nodes) |->
                   IF ast.Nodes[i].kind = "Is"
                   THEN hasMustEqualIsNode(ast.Nodes[i], field) ELSE <<>>])

HasMustEqual(ast, field) ==
    CASE ast.kind = "nil" -> <<>>
      [] ast.kind = "And" -> hasMustEqualAndNode(ast, field)
      [] ast.kind = "Is" -> hasMustEqualIsNode(ast, field)
      [] ast.kind = "Or" -> hasMustEqualOrNode(ast, field)
      [] OTHER -> <<>>

(***************************************************************************)
(* elastic: QueryGenerator.  A generator is its two mappers, named by the  *)
(* function they hold: "default" (the mappers of NewQueryGenerator), and   *)
(* "example" and "strict", the mappers of the documentation of             *)
(* WithFieldMapper and WithFieldValueMapper and of the package's test.     *)
(* A mapper returns a string and an error.                                 *)
(***************************************************************************)
NestedNode(expr) == Node("Nested", "", "", <<>>, <<expr>>)

Mapped(v, err) == [v |-> v, err |-> err]

AllowedFields == {"user_id", "release_time"}

mapFieldName(g, name) ==
    CASE g.mapFieldName = "example" ->
           IF name \notin AllowedFields
           THEN Mapped("", Err("field %s is not allowed", name, <<>>))
           ELSE IF name = "release_time" THEN Mapped("time", NoErr)
           ELSE Mapped(name, NoErr)
      [] g.mapFieldName = "rename" ->
           IF name = "release_time" THEN Mapped("time", NoErr) ELSE Mapped(name, NoErr)
      [] OTHER -> Mapped(name, NoErr)

mapFieldValue(g, name, value) ==
    CASE g.mapFieldValue = "example" ->
           IF name = "user_id" /\ ~(value # <<>> /\ AllDigits(value))
           THEN Mapped(<<>>, Err("user id %s is not allowed", name, value))
           ELSE Mapped(<<"u", "i", "d", "_">> \o value, NoErr)
      [] g.mapFieldValue = "strict" ->
           IF name = "time" /\ ~ParseTime(value).ok
           THEN Mapped(value, Err("invalid TIMESTAMP values: %w", name, value))
           ELSE IF name = "time" /\ ParseTime(value).v.v # 0
           THEN Mapped(value, Err("please round time fields to the nearest 5 minutes for improved cachability", name, <<>>))
           ELSE Mapped(value, NoErr)
      [] OTHER -> Mapped(value, NoErr)

(***************************************************************************)
(* types.Query.  Every query is a record with the same fields: q names the *)
(* member that is set ("" is the zero Query), id is the key of a term,     *)
(* terms or range query, op the member of a range query that is set or the *)
(* list of a bool query, value a Go value, vals the values of a terms      *)
(* query and clauses the queries of a bool query.  The value of a          *)
(* DateRangeQuery is a *string that points to the Value field of a         *)
(* LiteralNode of the AST: it is the path of that node from the root.      *)
(***************************************************************************)
Query(q, id, op, value, vals, clauses) ==
    [q |-> q, id |-> id, op |-> op, value |-> value, vals |-> vals, clauses |-> clauses]

ZeroQuery == Query("", "", "", GoNil, <<>>, <<>>)
\* A bool query that puts every list of clauses in must.
BoolQueryOfMust(list, clauses) == Query("bool", "", "must", GoNil, <<>>, clauses)

BoolQuery(list, clauses) == Query("bool", "", list, GoNil, <<>>, clauses)
TermQuery(id, value) == Query("term", id, "", GoString(value), <<>>, <<>>)
TermsQuery(id, vals) == Query("terms", id, "", GoNil, vals, <<>>)
NumberRangeQuery(id, op, fVal) == Query("number_range", id, op, fVal, <<>>, <<>>)
DateRangeQuery(id, op, path) == Query("date_range", id, op, [t |-> "*string", v |-> path, x |-> ""], <<>>, <<>>)
MatchAllQuery == Query("match_all", "", "", GoNil, <<>>, <<>>)
MatchNoneQuery == Query("match_none", "", "", GoNil, <<>>, <<>>)

\* What convertNodeToQuery leaves: the query and the error it returns, and
\* the node it was called on, with the Values it has assigned.
Converted(q, err, node) == [q |-> q, err |-> err, node |-> node]

\* fmt.Errorf("%s: %w", id, err)
WrapErr(id, err) == Err("%s: " \o err.kind, id, err.arg)

\* convertRangeNode(op, lit): value is lit.Value, path the place of lit.
convertRangeNode(id, op, value, path) ==
    IF ParseFloat(value).ok
    THEN [rq |-> NumberRangeQuery(id, op, ParseFloat(value).v), err |-> NoErr]
    ELSE IF ~ParseTime(value).ok
    THEN [rq |-> ZeroQuery, err |-> Err("expected number or date literal", "", <<>>)]
    ELSE [rq |-> DateRangeQuery(id, op, path), err |-> NoErr]

\* The loop over the children of the OrNode of `x:(y or z)`, from child i
\* on: every LiteralNode is mapped and assigned before the next is looked at.
RECURSIVE mapOrLiterals(_, _, _, _, _)
mapOrLiterals(g, id, nodes, i, vals) ==
    IF i > Len(nodes) THEN [vals |-> vals, err |-> NoErr, nodes |-> nodes]
    ELSE IF nodes[i].kind # "Literal"
    THEN [vals |-> vals, err |-> Err("%s: invalid syntax", id, <<>>), nodes |-> nodes]
    ELSE LET m == mapFieldValue(g, id, nodes[i].Value)
             assigned == [nodes EXCEPT ![i].Value = m.v]
         IN IF m.err # NoErr
            THEN [vals |-> vals, err |-> WrapErr(id, m.err), nodes |-> assigned]
            ELSE mapOrLiterals(g, id, assigned, i + 1, Append(vals, m.v))

RECURSIVE convertNodeToQuery(_, _, _, _)
RECURSIVE convertNodes(_, _, _, _, _, _)

\* The loop over the children of an AndNode or OrNode, from child i on.
convertNodes(g, nodes, prefix, path, i, clauses) ==
    IF i > Len(nodes) THEN [clauses |-> clauses, err |-> NoErr, nodes |-> nodes]
    ELSE LET c == convertNodeToQuery(g, nodes[i], prefix, Append(path, i))
             assigned == [nodes EXCEPT ![i] = c.node]
         IN IF c.err # NoErr
            THEN [clauses |-> clauses, err |-> c.err, nodes |-> assigned]
            ELSE convertNodes(g, assigned, prefix, path, i + 1, Append(clauses, c.q))

convertNodeToQuery(g, node, prefix, path) ==
    CASE node.kind \in {"And", "Or"} ->
           LET r == convertNodes(g, node.Nodes, prefix, path, 1, <<>>)
               n == [node EXCEPT !.Nodes = r.nodes]
           IN IF r.err # NoErr THEN Converted(ZeroQuery, r.err, n)
              ELSE Converted(BoolQuery(IF node.kind = "And" THEN "must" ELSE "should",
                                       r.clauses), NoErr, n)
      [] node.kind = "Not" ->
           LET c == convertNodeToQuery(g, node.Nodes[1], prefix, Append(path, 1))
               n == [node EXCEPT !.Nodes[1] = c.node]
           IN IF c.err # NoErr THEN Converted(ZeroQuery, c.err, n)
              ELSE Converted(BoolQuery("must_not", <<c.q>>), NoErr, n)
      [] node.kind = "Is" ->
           LET name == mapFieldName(g, prefix \o node.Identifier)
               id == name.v
               value == node.Nodes[1]
           IN IF name.err # NoErr THEN Converted(ZeroQuery, WrapErr(id, name.err), node)
              ELSE IF value.kind = "Nested"
              THEN LET c == convertNodeToQuery(g, value.Nodes[1], id \o ".",
                                               path \o <<1, 1>>)
                   IN Converted(c.q, c.err, [node EXCEPT !.Nodes[1].Nodes[1] = c.node])
              ELSE IF value.kind = "Or"
              THEN LET r == mapOrLiterals(g, id, value.Nodes, 1, <<>>)
                       n == [node EXCEPT !.Nodes[1].Nodes = r.nodes]
                   IN IF r.err # NoErr THEN Converted(ZeroQuery, r.err, n)
                      ELSE Converted(TermsQuery(id, r.vals), NoErr, n)
              ELSE IF value.kind # "Literal"
              THEN Converted(ZeroQuery, Err("%s: expected literal node", id, <<>>), node)
              ELSE LET m == mapFieldValue(g, id, value.Value)
                       n == [node EXCEPT !.Nodes[1].Value = m.v]
                   IN IF m.err # NoErr THEN Converted(ZeroQuery, WrapErr(id, m.err), n)
                      ELSE Converted(TermQuery(id, m.v), NoErr, n)
      [] node.kind = "Range" ->
           LET name == mapFieldName(g, prefix \o node.Identifier)
               id == name.v
               value == node.Nodes[1]
           IN IF name.err # NoErr THEN Converted(ZeroQuery, name.err, node)
              ELSE IF value.kind # "Literal"
              THEN Converted(ZeroQuery, Err("%s: expected literal node", id, <<>>), node)
              ELSE LET m == mapFieldValue(g, id, value.Value)
                       n == [node EXCEPT !.Nodes[1].Value = m.v]
                       r == convertRangeNode(id, node.Operator, m.v, Append(path, 1))
                   IN IF m.err # NoErr THEN Converted(ZeroQuery, WrapErr(id, m.err), n)
                      ELSE IF r.err # NoErr THEN Converted(ZeroQuery, WrapErr(id, r.err), n)
                      ELSE Converted(r.rq, NoErr, n)
      [] node.kind = "Literal" ->
           IF node.Value \notin {<<"t", "r", "u", "e">>, <<"f", "a", "l", "s", "e">>}
           THEN Converted(ZeroQuery,
                          Err("only boolean literals are supported; %s", "", node.Value), node)
           ELSE IF node.Value = <<"t", "r", "u", "e">>
           THEN Converted(MatchAllQuery, NoErr, node)
           ELSE Converted(MatchNoneQuery, NoErr, node)
      [] OTHER -> Converted(ZeroQuery, Err("unexpected node type: %T", "", <<>>), node)

(***************************************************************************)
(* The state of a ToSpannerSQL call: its arguments (filter, fieldConfigs), *)
(* its locals (clauseIdx is the position of the loop over f.Clauses,       *)
(* condAnds, params, paramIndex), where it is (pc: "loop", "done" after a  *)
(* return, "panic" after a run-time panic, "idle" when no call is made)    *)
(* and what it returned (ret).  prev holds the filter and the result of the*)
(* caller's previous call with the same fieldConfigs.                      *)
(***************************************************************************)
VARIABLES filter, fieldConfigs, clauseIdx, condAnds, params, paramIndex, pc, ret, prev

sqlVars == <<filter, fieldConfigs, clauseIdx, condAnds, params, paramIndex, pc, ret, prev>>

(***************************************************************************)
(* The state of a HasMustEqual call: its arguments (hmAst, hmField), where *)
(* it is (hmPc: "call", "done" after the return, "idle" when no call is    *)
(* made) and what it returned (hmValues).                                  *)
(***************************************************************************)
VARIABLES hmAst, hmField, hmValues, hmPc

hmVars == <<hmAst, hmField, hmValues, hmPc>>

\* No HasMustEqual call is made.
HmIdle == hmAst = NilNode /\ hmField = "" /\ hmValues = <<>> /\ hmPc = "idle"

(***************************************************************************)
(* The state of the callers of ConvertAST: the generator (esGen), the AST  *)
(* they share (esAst) and what it was when they got it (esOrig), and for   *)
(* each call where it is: pc ("call" before a call that is taken as one    *)
(* step; "node", "map", "store", "load", "return" inside a call that is    *)
(* taken step by step; "done" after the return; "idle" when no call is     *)
(* made), the child of the root and the literal of that child it is at,    *)
(* its locals (id, tmp: what mapFieldValue returned, vals, clauses),       *)
(* whether it has assigned to the AST (wrote) and what it returned (ret).  *)
(***************************************************************************)
VARIABLES esGen, esOrig, esAst, esCalls

esVars == <<esGen, esOrig, esAst, esCalls>>

Calls == {1, 2}

DefaultGenerator == [mapFieldName |-> "default", mapFieldValue |-> "default"]

CallAt(pcv) ==
    [pc |-> pcv, child |-> 1, elem |-> 1, id |-> "", tmp |-> Mapped(<<>>, NoErr),
     vals |-> <<>>, clauses |-> <<>>, wrote |-> FALSE,
     ret |-> [q |-> ZeroQuery, err |-> NoErr]]

\* No ConvertAST call is made.
EsIdle ==
    /\ esGen = DefaultGenerator
    /\ esOrig = NilNode
    /\ esAst = NilNode
    /\ esCalls = [c \in Calls |-> CallAt("idle")]

(***************************************************************************)
(* filter.go: convertToFilter, the projection of an AST on a Filter.  What *)
(* it returns is the Clauses of the Filter and the error.                  *)
(***************************************************************************)
\* return Filter{}, err
FilterErr(err) == [Clauses |-> <<>>, err |-> err]

\* return Filter{Clauses: clauses}, nil
FilterOk(clauses) == [Clauses |-> clauses, err |-> NoErr]

UnsupportedNodeType(node) == Err("unsupported node type %T", "", <<node.kind>>)

TrueLiteral == <<"t", "r", "u", "e">>
FalseLiteral == <<"f", "a", "l", "s", "e">>

convertLiteralNode(ast) ==
    IF ast.Value \notin {TrueLiteral, FalseLiteral}
    THEN FilterErr(Err("only boolean literals are supported; %s", "", <<ast.Value>>))
    ELSE IF ast.Value = TrueLiteral
    THEN FilterOk(<<Clause("1", "=", <<<<"1">>>>)>>)
    ELSE FilterOk(<<Clause("1", "=", <<<<"0">>>>)>>)

convertIsNode(ast) ==
    LET n == ast.Nodes[1]
        notLiteral == FirstIndex([i \in 1..Len(n.Nodes) |-> n.Nodes[i].kind # "Literal"])
    IN CASE n.kind = "Literal" ->
              FilterOk(<<Clause(ast.Identifier, "=", <<n.Value>>)>>)
         [] n.kind = "Or" ->
              IF notLiteral # 0
              THEN FilterErr(UnsupportedNodeType(n.Nodes[notLiteral]))
              ELSE FilterOk(<<Clause(ast.Identifier, "IN",
                                     [i \in 1..Len(n.Nodes) |-> n.Nodes[i].Value])>>)
         [] OTHER -> FilterErr(UnsupportedNodeType(n))

\* A conversion of a NotNode that negates a clause of every operator.
convertNotNodeOfAnyOperator(ast) ==
    LET n == ast.Nodes[1]
        converted == convertIsNode(n)
    IN IF n.kind # "Is" THEN FilterErr(UnsupportedNodeType(n))
       ELSE IF converted.err # NoErr THEN FilterErr(converted.err)
       ELSE FilterOk([i \in 1..Len(converted.Clauses) |->
                         [converted.Clauses[i] EXCEPT !.Operator = "!="]])

convertNotNode(ast) ==
    LET n == ast.Nodes[1]
        converted == convertIsNode(n)
        notEqual == FirstIndex([i \in 1..Len(converted.Clauses) |->
                                   converted.Clauses[i].Operator # "="])
    IN IF n.kind # "Is" THEN FilterErr(UnsupportedNodeType(n))
       ELSE IF converted.err # NoErr THEN FilterErr(converted.err)
       ELSE IF notEqual # 0
       THEN FilterErr(Err("cannot support negation on operator %s", "",
                          <<converted.Clauses[notEqual].Operator>>))
       ELSE FilterOk([i \in 1..Len(converted.Clauses) |->
                         [converted.Clauses[i] EXCEPT !.Operator = "!="]])

\* A conversion of a RangeNode that takes every operator.
convertRangeNodeOfAnyOperator(ast) ==
    LET n == ast.Nodes[1]
    IN IF n.kind # "Literal" THEN FilterErr(UnsupportedNodeType(n))
       ELSE FilterOk(<<Clause(ast.Identifier, ast.Operator, <<n.Value>>)>>)

\* filter.go: convertRangeNode.  The String() of a RangeOperator that is none
\* of the four operators is "???".
convertRangeNodeToFilter(ast) ==
    LET n == ast.Nodes[1]
    IN IF n.kind # "Literal" THEN FilterErr(UnsupportedNodeType(n))
       ELSE IF ast.Operator = "???"
       THEN FilterErr(Err("unsupported operator %s", "", <<ast.Operator>>))
       ELSE FilterOk(<<Clause(ast.Identifier, ast.Operator, <<n.Value>>)>>)

\* A conversion that passes over a child of another kind.
convertAndChildSkipping(ast, node) ==
    CASE node.kind = "Is" -> convertIsNode(node)
      [] node.kind = "Not" -> convertNotNode(node)
      [] node.kind = "Range" -> convertRangeNodeToFilter(node)
      [] node.kind = "Literal" -> convertLiteralNode(node)
      [] OTHER -> FilterOk(<<>>)

\* The conversion of a child of an AndNode; the error of the default branch
\* names the type of the AndNode.
convertAndChild(ast, node) ==
    CASE node.kind = "Is" -> convertIsNode(node)
      [] node.kind = "Not" -> convertNotNode(node)
      [] node.kind = "Range" -> convertRangeNodeToFilter(node)
      [] node.kind = "Literal" -> convertLiteralNode(node)
      [] OTHER -> FilterErr(UnsupportedNodeType(ast))

\* A count that leaves out the clauses of the boolean literals.
FieldCountOfNamedFields(clauses, i) ==
    IF clauses[i].Field = "1" THEN 0
    ELSE Cardinality({j \in 1..i : clauses[j].Field = clauses[i].Field})

\* fieldCounts[clause.Field]++ over the clauses up to the i-th.
FieldCount(clauses, i) ==
    Cardinality({j \in 1..i : clauses[j].Field = clauses[i].Field})

\* A conversion of an AndNode that returns, with the error, the clauses it
\* has collected up to the failure.
convertAndNodeKeepsClauses(ast) ==
    LET converted == [i \in 1..Len(ast.Nodes) |-> convertAndChild(ast, ast.Nodes[i])]
        failed == FirstIndex([i \in 1..Len(ast.Nodes) |-> converted[i].err # NoErr])
        clauses == Concat([i \in 1..Len(ast.Nodes) |-> converted[i].Clauses])
        exceeded == FirstIndex([i \in 1..Len(clauses) |-> FieldCount(clauses, i) > 2])
    IN IF failed # 0
       THEN [Clauses |-> Concat([i \in 1..(failed - 1) |-> converted[i].Clauses]),
             err |-> converted[failed].err]
       ELSE IF exceeded # 0
       THEN [Clauses |-> clauses,
             err |-> Err("field count maximum in filter exceeded", "", <<>>)]
       ELSE FilterOk(clauses)

convertAndNode(ast) ==
    LET converted == [i \in 1..Len(ast.Nodes) |-> convertAndChild(ast, ast.Nodes[i])]
        failed == FirstIndex([i \in 1..Len(ast.Nodes) |-> converted[i].err # NoErr])
        clauses == Concat([i \in 1..Len(ast.Nodes) |-> converted[i].Clauses])
        exceeded == FirstIndex([i \in 1..Len(clauses) |-> FieldCount(clauses, i) > 2])
    IN IF failed # 0 THEN FilterErr(converted[failed].err)
       ELSE IF exceeded # 0
       THEN FilterErr(Err("field count maximum in filter exceeded", "", <<>>))
       ELSE FilterOk(clauses)

convertToFilter(ast) ==
    CASE ast.kind = "nil" -> FilterOk(<<>>)
      [] ast.kind = "And" -> convertAndNode(ast)
      [] ast.kind = "Is" -> convertIsNode(ast)
      [] ast.kind = "Range" -> convertRangeNodeToFilter(ast)
      [] ast.kind = "Not" -> convertNotNode(ast)
      [] ast.kind = "Literal" -> convertLiteralNode(ast)
      [] OTHER -> FilterErr(UnsupportedNodeType(ast))

(***************************************************************************)
(* The state of a convertToFilter call: its argument (pjAst), where it is  *)
(* (pjPc: "call", "done" after the return, "idle" when no call is made)    *)
(* and what it returned (pjRet).                                           *)
(***************************************************************************)
VARIABLES pjAst, pjRet, pjPc

pjVars == <<pjAst, pjRet, pjPc>>

\* No convertToFilter call is made.
PjIdle == pjAst = NilNode /\ pjRet = FilterOk(<<>>) /\ pjPc = "idle"

(***************************************************************************)
(* ParseAST on an input of field predicates that are joined by `or` or by  *)
(* white space alone, as elastic_test.go pins it down: the predicates      *)
(* around an `or` make one Or node, and the expressions that only white    *)
(* space separates make the And node of the root.  An input is the AST     *)
(* nodes of its predicates (preds) and the connectives between them        *)
(* (conns: "or", or " " for white space).                                  *)
(***************************************************************************)
Input(preds, conns) == [preds |-> preds, conns |-> conns]

NoInput == Input(<<>>, <<>>)

\* The node of the expressions of a list: the expression itself when it is
\* alone.
NodeOfList(kind, nodes) ==
    IF Len(nodes) = 1 THEN nodes[1] ELSE Node(kind, "", "", <<>>, nodes)

\* The predicates from the i-th on, split at the connectives that separate:
\* run holds the predicates of the expression under way.
RECURSIVE SplitAt(_, _, _, _)
SplitAt(input, separator, i, run) ==
    IF i > Len(input.preds) THEN <<run>>
    ELSE IF input.conns[i - 1] = separator
    THEN <<run>> \o SplitAt(input, separator, i + 1, <<input.preds[i]>>)
    ELSE SplitAt(input, separator, i + 1, Append(run, input.preds[i]))

\* A parser in which white space binds tighter than `or`.
ParseASTOrLast(input) ==
    IF input.preds = <<>> THEN NilNode
    ELSE LET runs == SplitAt(input, "or", 2, <<input.preds[1]>>)
         IN NodeOfList("Or", [k \in 1..Len(runs) |-> NodeOfList("And", runs[k])])

ParseAST(input) ==
    IF input.preds = <<>> THEN NilNode
    ELSE LET runs == SplitAt(input, " ", 2, <<input.preds[1]>>)
         IN NodeOfList("And", [k \in 1..Len(runs) |-> NodeOfList("Or", runs[k])])

(***************************************************************************)
(* The state of a ParseAST call: its input (psInput) and where it is       *)
(* (psPc: "parse", "done" after the return, "idle" when no call is made).  *)
(* The AST it returns is the one the caller hands to ConvertAST.           *)
(***************************************************************************)
VARIABLES psInput, psPc

psVars == <<psInput, psPc>>

\* No ParseAST call is made.
PsIdle == psInput = NoInput /\ psPc = "idle"

EmptyMap == <<>>

NoRet == [condAnds |-> <<>>, params |-> EmptyMap, paramsNil |-> TRUE, err |-> NoErr]

\* return nil, nil, err
RetErr(err) == [condAnds |-> <<>>, params |-> EmptyMap, paramsNil |-> TRUE, err |-> err]

\* return condAnds, params, nil
RetOk(preds, ps) == [condAnds |-> preds, params |-> ps, paramsNil |-> FALSE, err |-> NoErr]

\* A lowering that puts each new predicate in front of the earlier ones.
appendPredFront(preds, pred) == <<pred>> \o preds

\* condAnds = append(condAnds, fmt.Sprintf(...))
appendPred(preds, pred) == Append(preds, pred)

\* params[paramName] = mappedValue
MapPut(m, key, value) ==
    [k \in DOMAIN m \cup {key} |-> IF k = key THEN value ELSE m[k]]

\* The state at the entry of ToSpannerSQL.
EnterToSpannerSQL(f, configs) ==
    /\ filter = f
    /\ fieldConfigs = configs
    /\ clauseIdx = 1
    /\ condAnds = <<>>
    /\ params = EmptyMap
    /\ paramIndex = 0
    /\ pc = "loop"
    /\ ret = NoRet
    /\ prev = <<>>

\* The state at the entry of ToSpannerSQL when nothing else is called.
Enter(f, configs) ==
    /\ EnterToSpannerSQL(f, configs)
    /\ HmIdle
    /\ EsIdle
    /\ PjIdle
    /\ PsIdle

\* One iteration of `for _, clause := range f.Clauses`.
LowerClause ==
    /\ pc = "loop"
    /\ clauseIdx <= Len(filter)
    /\ \E resolved \in Resolutions(fieldConfigs, filter[clauseIdx].Field) :
         LET step == lowerClause(filter, filter[clauseIdx], resolved, paramIndex)
         IN /\ pc' = CASE step.st = "err" -> "done"
                       [] step.st = "panic" -> "panic"
                       [] OTHER -> "loop"
            /\ ret' = IF step.st = "err" THEN RetErr(step.err) ELSE ret
            /\ clauseIdx' = IF step.st \in {"ok", "continue"} THEN clauseIdx + 1
                            ELSE clauseIdx
            /\ condAnds' = IF step.st = "ok" /\ step.hasPred
                           THEN appendPred(condAnds, step.pred) ELSE condAnds
            /\ params' = IF step.st = "ok"
                         THEN MapPut(params, ParamName(paramIndex), step.value)
                         ELSE params
            /\ paramIndex' = IF step.st = "ok" THEN paramIndex + 1 ELSE paramIndex
    /\ UNCHANGED <<filter, fieldConfigs, prev>>
    /\ UNCHANGED <<hmVars, esVars, pjVars, psVars>>

\* The loop over the Required configs finds one whose field is missing.
ReturnRequiredMissing ==
    /\ pc = "loop"
    /\ clauseIdx > Len(filter)
    /\ \E field \in MissingRequired(filter, fieldConfigs) :
         ret' = RetErr(Err("required field %s missing", field, <<>>))
    /\ pc' = "done"
    /\ UNCHANGED <<filter, fieldConfigs, clauseIdx, condAnds, params, paramIndex, prev>>
    /\ UNCHANGED <<hmVars, esVars, pjVars, psVars>>

\* The loop over the Required configs finds none: return condAnds, params, nil.
ReturnResult ==
    /\ pc = "loop"
    /\ clauseIdx > Len(filter)
    /\ MissingRequired(filter, fieldConfigs) = {}
    /\ ret' = RetOk(condAnds, params)
    /\ pc' = "done"
    /\ UNCHANGED <<filter, fieldConfigs, clauseIdx, condAnds, params, paramIndex, prev>>
    /\ UNCHANGED <<hmVars, esVars, pjVars, psVars>>

\* The filters that differ from f in one clause, whose field, a key of the
\* config map, is replaced by one of that config's aliases.
AliasVariants(f, configs) ==
    UNION {{[f EXCEPT ![j].Field = configs[f[j].Field].Aliases[a]] :
               a \in 1..Len(configs[f[j].Field].Aliases)} :
           j \in {i \in 1..Len(f) : f[i].Field \in DOMAIN configs}}

\* The caller calls ToSpannerSQL a second time, with the same fieldConfigs,
\* on the same filter or on an alias variant of it.
CallAgain ==
    /\ pc = "done"
    /\ prev = <<>>
    /\ \E f \in {filter} \cup AliasVariants(filter, fieldConfigs) :
         filter' = f
    /\ prev' = <<[filter |-> filter, ret |-> ret]>>
    /\ clauseIdx' = 1
    /\ condAnds' = <<>>
    /\ params' = EmptyMap
    /\ paramIndex' = 0
    /\ pc' = "loop"
    /\ ret' = NoRet
    /\ UNCHANGED fieldConfigs
    /\ UNCHANGED <<hmVars, esVars, pjVars, psVars>>

\* The filters that hold the clauses of f in another order, or in the same.
PermutationsOf(f) ==
    {[i \in 1..Len(f) |-> f[p[i]]] :
        p \in {q \in [1..Len(f) -> 1..Len(f)] :
                  \A i, j \in 1..Len(f) : q[i] = q[j] => i = j}}

\* The caller calls ToSpannerSQL a second time, with the same fieldConfigs,
\* on a filter of the same clauses in any order, after the first call has
\* returned or has panicked (and the caller has recovered).
CallPermuted ==
    /\ pc \in {"done", "panic"}
    /\ prev = <<>>
    /\ \E f \in PermutationsOf(filter) : filter' = f
    /\ prev' = <<[filter |-> filter, ret |-> ret]>>
    /\ clauseIdx' = 1
    /\ condAnds' = <<>>
    /\ params' = EmptyMap
    /\ paramIndex' = 0
    /\ pc' = "loop"
    /\ ret' = NoRet
    /\ UNCHANGED fieldConfigs
    /\ UNCHANGED <<hmVars, esVars, pjVars, psVars>>

(***************************************************************************)
(* The inputs of the model.                                                *)
(***************************************************************************)
SeqsUpTo(S, n) == UNION {[1..k -> S] : k \in 0..n}

\* A config that allows every operator.
Permissive(columnType) ==
    [ZeroConfig EXCEPT !.ColumnType = columnType, !.AllowPrefixMatch = TRUE,
                       !.AllowSuffixMatch = TRUE, !.AllowMultipleValues = TRUE,
                       !.AllowRanges = TRUE, !.AllowContains = TRUE,
                       !.AllowContainedBy = TRUE, !.AllowNegation = TRUE]

\* Configs of the STRING field a (alias x) and of the INT64 field b.
ConfigsA ==
    {[base EXCEPT !.Aliases = <<"x">>, !.ColumnName = columnName,
                  !.Required = required, !.Ignore = ignore] :
        base \in {Permissive("STRING"), [ZeroConfig EXCEPT !.ColumnType = "STRING"]},
        columnName \in {"", "ColA"}, required \in BOOLEAN, ignore \in BOOLEAN}

ConfigsB ==
    {[Permissive("INT64") EXCEPT !.Required = required, !.Ignore = ignore,
                                 !.Requires = requires] :
        required \in BOOLEAN, ignore \in BOOLEAN, requires \in {<<>>, <<"a">>}}

GeneralConfigMaps ==
    {[k \in {"a"} |-> a] : a \in ConfigsA}
    \cup {[k \in {"a", "b"} |-> IF k = "a" THEN a ELSE b] : a \in ConfigsA, b \in ConfigsB}

\* Clauses on a, on its alias x, on b, on the unknown field u and the
\* boolean literal.
GeneralClauses ==
    {Clause("a", "=", <<<<"a">>>>),
     Clause("a", "!=", <<<<"a">>>>),
     Clause("a", "IN", <<<<"a">>, <<"A">>>>),
     Clause("a", "=", <<<<"a">>, <<"b">>>>),
     Clause("x", "=", <<<<"1">>>>),
     Clause("b", "=", <<<<"1">>>>),
     Clause("b", ">=", <<<<"2">>>>),
     Clause("b", "=", <<<<"a">>>>),
     Clause("b", "<@", <<<<"1">>, <<"0", "1">>>>),
     Clause("u", "=", <<<<"a">>>>),
     Clause("1", "=", <<<<"1">>>>)}

\* One array clause on a typed column a: every column type, with and
\* without a MapValue hook, and every list of raw values.
RawValues == {<<"a">>, <<"A">>, <<"1">>, <<"0", "1">>, <<"N", "a", "N">>, TS1, TS1Offset}

ColumnTypes == {"UNSPECIFIED", "STRING", "INT64", "FLOAT64", "BOOL", "TIMESTAMP"}

ArrayConfigMaps ==
    {[k \in {"a"} |-> [Permissive(columnType) EXCEPT !.MapValue = hook, !.Required = required]] :
        columnType \in ColumnTypes, hook \in {"nil", "upper"}, required \in BOOLEAN}

ArrayFilters ==
    {<<Clause("a", operator, values)>> :
        operator \in {"IN", "<@", ">@"}, values \in SeqsUpTo(RawValues, MaxValues)}

InitGeneral ==
    \E f \in SeqsUpTo(GeneralClauses, MaxClauses), configs \in GeneralConfigMaps :
        Enter(f, configs)

InitArray ==
    \E f \in ArrayFilters, configs \in ArrayConfigMaps : Enter(f, configs)

Init == InitGeneral \/ InitArray

Next == LowerClause \/ ReturnRequiredMissing \/ ReturnResult

vars == <<sqlVars, hmVars, esVars, pjVars, psVars>>

Spec == Init /\ [][Next]_vars

(***************************************************************************)
(* A caller that calls ToSpannerSQL twice with the same fieldConfigs.  The *)
(* config maps are the ones above and maps in which the STRING field a and *)
(* the INT64 field b both list the alias x and can both be Required.       *)
(***************************************************************************)
OverlapConfigMaps ==
    {[k \in {"a", "b"} |->
        IF k = "a"
        THEN [Permissive("STRING") EXCEPT !.Aliases = <<"x">>, !.ColumnName = "ColA",
                                          !.Required = required]
        ELSE [Permissive("INT64") EXCEPT !.Aliases = <<"x">>, !.ColumnName = "ColB",
                                         !.Required = required]] :
        required \in BOOLEAN}

OverlapClauses ==
    {Clause("x", "=", <<<<"1">>>>),
     Clause("x", "=", <<<<"a">>>>),
     Clause("a", "=", <<<<"a">>>>),
     Clause("1", "=", <<<<"1">>>>)}

InitOverlap ==
    \E f \in SeqsUpTo(OverlapClauses, MaxClauses), configs \in OverlapConfigMaps :
        Enter(f, configs)

InitTwo == InitGeneral \/ InitOverlap

NextTwo == LowerClause \/ ReturnRequiredMissing \/ ReturnResult \/ CallAgain

SpecTwo == InitTwo /\ [][NextTwo]_vars

(***************************************************************************)
(* Calls of ToSpannerSQL that exercise one feature each: the Allow flags   *)
(* and the operators, the wildcards of a string value, the MapValue hooks  *)
(* and the column types, Requires, and the boolean literal.                *)
(***************************************************************************)
Operators == {"=", "!=", "<", "<=", ">", ">=", "IN", "<@", ">@"}

\* One clause on a, of every operator and of one or two values, for a config
\* of every combination of the Allow flags that gate an operator, on a
\* STRING or INT64 column, without hook or with a hook that returns nil.
FlagConfigMaps ==
    {[k \in {"a"} |->
        [ZeroConfig EXCEPT !.ColumnType = columnType, !.MapValue = hook,
                           !.AllowMultipleValues = flags[1], !.AllowRanges = flags[2],
                           !.AllowContains = flags[3], !.AllowContainedBy = flags[4],
                           !.AllowNegation = flags[5], !.AllowPrefixMatch = flags[6]]] :
        columnType \in {"STRING", "INT64"}, hook \in {"nil", "null"},
        flags \in [1..6 -> BOOLEAN]}

FlagFilters ==
    {<<Clause("a", operator, values)>> :
        operator \in Operators, values \in {<<<<"1">>>>, <<<<"1">>, <<"2">>>>}}

InitFlags ==
    \E f \in FlagFilters, configs \in FlagConfigMaps : Enter(f, configs)

\* One = or != clause on a, of a value with wildcards, for a config of every
\* combination of the flags of the prefix and suffix match, on a STRING
\* column.
WildcardValues ==
    {<<"*">>, <<"*", "*">>, <<"a", "*">>, <<"*", "a">>, <<"*", "a", "*">>,
     <<"a", "\\", "*">>, <<"*", "a", "\\", "*">>, <<"a", "*", "b">>,
     <<"_", "%", "*">>, <<"\\", "a", "*">>, <<"a">>, <<>>}

WildcardConfigMaps ==
    {[k \in {"a"} |->
        [ZeroConfig EXCEPT !.ColumnType = "STRING", !.ColumnName = "ColA",
                           !.AllowPrefixMatch = flags[1], !.AllowSuffixMatch = flags[2],
                           !.AllowCaseInsensitiveMatch = flags[3],
                           !.AllowNegation = flags[4]]] :
        flags \in [1..4 -> BOOLEAN]}

WildcardFilters ==
    {<<Clause("a", operator, <<value>>)>> :
        operator \in {"=", "!="}, value \in WildcardValues}

InitWildcards ==
    \E f \in WildcardFilters, configs \in WildcardConfigMaps : Enter(f, configs)

\* One =, IN or >= clause on a, of up to MaxValues values, for a config of
\* every column type and every hook, that allows multiple values or not.
Hooks == {"nil", "enum", "upper", "count", "strings", "null"}

HookConfigMaps ==
    {[k \in {"a"} |->
        [ZeroConfig EXCEPT !.ColumnType = columnType, !.MapValue = hook,
                           !.AllowMultipleValues = multiple, !.AllowRanges = TRUE]] :
        columnType \in ColumnTypes, hook \in Hooks, multiple \in BOOLEAN}

HookFilters ==
    {<<Clause("a", operator, values)>> :
        operator \in {"=", "IN", ">="},
        values \in SeqsUpTo({<<"a">>, <<"0">>, <<"1">>, <<"0", "1">>}, MaxValues)}

InitHooks ==
    \E f \in HookFilters, configs \in HookConfigMaps : Enter(f, configs)

\* Up to MaxClauses clauses on a (alias x) and on b (alias y), b with
\* Requires = [a], a required or not.
RequiresConfigMaps ==
    {[k \in {"a", "b"} |->
        IF k = "a"
        THEN [Permissive("STRING") EXCEPT !.Aliases = <<"x">>, !.Required = required]
        ELSE [Permissive("INT64") EXCEPT !.Aliases = aliases, !.Requires = <<"a">>]] :
        required \in BOOLEAN, aliases \in {<<>>, <<"y">>}}

RequiresClauses ==
    {Clause("a", "=", <<<<"a">>>>),
     Clause("x", "=", <<<<"a">>>>),
     Clause("b", "=", <<<<"1">>>>),
     Clause("y", "=", <<<<"1">>>>)}

InitRequires ==
    \E f \in SeqsUpTo(RequiresClauses, MaxClauses), configs \in RequiresConfigMaps :
        Enter(f, configs)

\* Up to MaxClauses clauses on a, on the unknown field u and on the field 1
\* of the boolean literal, with every operator and several values.
LiteralConfigMaps ==
    {[k \in {"a"} |-> [Permissive("STRING") EXCEPT !.Aliases = <<"x">>]]}

LiteralClauses ==
    {Clause("a", "=", <<<<"a">>>>), Clause("x", "=", <<<<"a">>>>)}
    \cup {Clause("u", operator, <<<<"1">>>>) : operator \in {"=", "IN"}}
    \cup {Clause("1", operator, values) :
             operator \in Operators,
             values \in {<<<<"0">>>>, <<<<"1">>>>, <<<<"2">>>>, <<<<"1">>, <<"0">>>>, <<>>}}

InitLiterals ==
    \E f \in SeqsUpTo(LiteralClauses, MaxClauses), configs \in LiteralConfigMaps :
        Enter(f, configs)

InitFeatures == InitFlags \/ InitWildcards \/ InitHooks \/ InitRequires \/ InitLiterals

SpecFeatures == InitFeatures /\ [][Next]_vars

(***************************************************************************)
(* A caller that calls ToSpannerSQL twice with the same fieldConfigs, on   *)
(* a filter and on a permutation of it.                                    *)
(***************************************************************************)
InitPermuted == InitTwo \/ InitRequires \/ InitLiterals

NextPermuted == LowerClause \/ ReturnRequiredMissing \/ ReturnResult \/ CallPermuted

SpecPermuted == InitPermuted /\ [][NextPermuted]_vars

(***************************************************************************)
(* Calls of ToSpannerSQL on filters of several invalid clauses: a is a     *)
(* BOOL or STRING column that allows every operator, b an INT64 column     *)
(* that allows none, u is unknown.                                         *)
(***************************************************************************)
InvalidConfigMaps ==
    {[k \in {"a", "b"} |->
        IF k = "a" THEN [Permissive(columnType) EXCEPT !.Required = required]
        ELSE [ZeroConfig EXCEPT !.ColumnType = "INT64", !.Required = required]] :
        columnType \in {"BOOL", "STRING"}, required \in BOOLEAN}

InvalidClauseInputs ==
    {Clause("a", "IN", <<<<"1">>, <<"0">>>>),
     Clause("a", ">=", <<<<"1">>>>),
     Clause("a", "=", <<<<"1">>>>),
     Clause("a", "=", <<<<"*">>>>),
     Clause("b", "!=", <<<<"1">>>>),
     Clause("b", "=", <<<<"a">>>>),
     Clause("u", "=", <<<<"a">>>>)}

InitInvalid ==
    \E f \in SeqsUpTo(InvalidClauseInputs, MaxClauses), configs \in InvalidConfigMaps :
        Enter(f, configs)

InitFirstFailure == InitGeneral \/ InitInvalid

SpecFirstFailure == InitFirstFailure /\ [][Next]_vars

(***************************************************************************)
(* A caller of HasMustEqual.  The ASTs are a node, or an And or an Or of   *)
(* up to MaxNodes nodes, or the Not of a node; a node is an Is, a Range, a *)
(* boolean literal, the Not of an Is, or an And or an Or of two of those.  *)
(***************************************************************************)
MaxNodes == 2

HmFields == {"f", "g"}

AtomNodes ==
    {IsNode("f", LiteralNode(<<"1">>)),
     IsNode("f", LiteralNode(<<"2">>)),
     IsNode("g", LiteralNode(<<"1">>)),
     IsNode("f", OrNode(<<LiteralNode(<<"1">>), LiteralNode(<<"2">>)>>)),
     RangeNode("g", ">=", LiteralNode(<<"2">>)),
     LiteralNode(<<"t", "r", "u", "e">>),
     NotNode(IsNode("f", LiteralNode(<<"1">>)))}

PairedNodes ==
    {IsNode("f", LiteralNode(<<"1">>)),
     IsNode("g", LiteralNode(<<"1">>)),
     RangeNode("g", ">=", LiteralNode(<<"2">>))}

InnerNodes ==
    AtomNodes
    \cup {AndNode(<<x, y>>) : x \in PairedNodes, y \in PairedNodes}
    \cup {OrNode(<<x, y>>) : x \in PairedNodes, y \in PairedNodes}

NodeLists == UNION {[1..k -> InnerNodes] : k \in 1..MaxNodes}

HmAsts ==
    {NilNode} \cup InnerNodes
    \cup {AndNode(nodes) : nodes \in NodeLists}
    \cup {OrNode(nodes) : nodes \in NodeLists}
    \cup {NotNode(expr) : expr \in InnerNodes}

\* No ToSpannerSQL call is made.
SqlIdle ==
    /\ filter = <<>>
    /\ fieldConfigs = EmptyMap
    /\ clauseIdx = 1
    /\ condAnds = <<>>
    /\ params = EmptyMap
    /\ paramIndex = 0
    /\ pc = "idle"
    /\ ret = NoRet
    /\ prev = <<>>

InitHasMustEqual ==
    /\ SqlIdle
    /\ PjIdle
    /\ PsIdle
    /\ hmAst \in HmAsts
    /\ hmField \in HmFields
    /\ hmValues = <<>>
    /\ hmPc = "call"
    /\ EsIdle

\* values := HasMustEqual(n, field)
CallHasMustEqual ==
    /\ hmPc = "call"
    /\ hmValues' = HasMustEqual(hmAst, hmField)
    /\ hmPc' = "done"
    /\ UNCHANGED <<hmAst, hmField>>
    /\ UNCHANGED <<sqlVars, esVars, pjVars, psVars>>

NextHasMustEqual == CallHasMustEqual

SpecHasMustEqual == InitHasMustEqual /\ [][NextHasMustEqual]_vars

(***************************************************************************)
(* A caller of ConvertAST, the call taken as one step.  The ASTs are a     *)
(* node, the Not of a node, or an And or an Or of up to MaxNodes nodes.    *)
(***************************************************************************)
Generators ==
    {[mapFieldName |-> n, mapFieldValue |-> v] :
        n \in {"default", "example"}, v \in {"default", "example", "strict"}}

True == <<"t", "r", "u", "e">>
False == <<"f", "a", "l", "s", "e">>

\* Nodes that ConvertAST lowers, unless a mapper rejects them.
PlainNodes ==
    {IsNode("user_id", LiteralNode(<<"1">>)),
     IsNode("user_id", LiteralNode(<<"x">>)),
     IsNode("g", LiteralNode(<<"1">>)),
     IsNode("user_id", OrNode(<<LiteralNode(<<"1">>), LiteralNode(<<"2">>)>>)),
     IsNode("user_id", OrNode(<<LiteralNode(<<"1">>), LiteralNode(<<"x">>)>>)),
     RangeNode("release_time", ">=", LiteralNode(TS1)),
     RangeNode("release_time", "<", LiteralNode(TS2)),
     RangeNode("user_id", ">", LiteralNode(<<"1">>)),
     RangeNode("user_id", "<=", LiteralNode(<<"x">>)),
     LiteralNode(True),
     LiteralNode(False)}

\* Nodes with a Nested value, and nodes that ConvertAST rejects.
OtherNodes ==
    {IsNode("user_id", NestedNode(IsNode("g", LiteralNode(<<"1">>)))),
     IsNode("user_id", OrNode(<<LiteralNode(<<"1">>), IsNode("g", LiteralNode(<<"1">>))>>)),
     IsNode("user_id", AndNode(<<LiteralNode(<<"1">>), LiteralNode(<<"2">>)>>)),
     RangeNode("user_id", ">", OrNode(<<LiteralNode(<<"1">>), LiteralNode(<<"2">>)>>)),
     LiteralNode(<<"x">>),
     NestedNode(LiteralNode(True))}

TreesOver(nodes) ==
    nodes
    \cup {NotNode(expr) : expr \in nodes}
    \cup {AndNode(list) : list \in UNION {[1..k -> nodes] : k \in 1..MaxNodes}}
    \cup {OrNode(list) : list \in UNION {[1..k -> nodes] : k \in 1..MaxNodes}}

EsAsts == TreesOver(PlainNodes \cup OtherNodes)

InitElastic ==
    /\ SqlIdle
    /\ PjIdle
    /\ PsIdle
    /\ HmIdle
    /\ esGen \in Generators
    /\ esOrig \in EsAsts
    /\ esAst = esOrig
    /\ esCalls = [c \in Calls |-> IF c = 1 THEN CallAt("call") ELSE CallAt("idle")]

\* query, err := g.ConvertAST(root)
ConvertAST ==
    /\ esCalls[1].pc = "call"
    /\ LET r == convertNodeToQuery(esGen, esAst, "", <<>>)
       IN /\ esAst' = r.node
          /\ esCalls' = [esCalls EXCEPT ![1].pc = "done",
                                        ![1].wrote = (r.node # esAst),
                                        ![1].ret = [q |-> r.q, err |-> r.err]]
    /\ UNCHANGED <<esGen, esOrig>>
    /\ UNCHANGED <<sqlVars, hmVars, pjVars, psVars>>

NextElastic == ConvertAST

SpecElastic == InitElastic /\ [][NextElastic]_vars

(***************************************************************************)
(* A caller lowers an AST of two levels of And, Or and Not over three      *)
(* field predicates, as the parser builds it for an input like             *)
(* `A B or C`, or an Is on a Nested value that holds such a node.          *)
(***************************************************************************)
FieldPredicates ==
    {IsNode("user_id", LiteralNode(<<"1">>)),
     IsNode("g", OrNode(<<LiteralNode(<<"2">>), LiteralNode(<<"1">>)>>)),
     RangeNode("release_time", ">=", LiteralNode(TS1))}

Compounds(nodes) ==
    {NotNode(expr) : expr \in nodes}
    \cup {AndNode(<<x, y>>) : x, y \in nodes}
    \cup {OrNode(<<x, y>>) : x, y \in nodes}

NestedAsts ==
    {IsNode(f, NestedNode(expr)) :
        f \in {"user_id", "release_time"},
        expr \in FieldPredicates \cup Compounds(FieldPredicates)
                 \cup {IsNode("g", NestedNode(x)) : x \in FieldPredicates}}

StructuredAsts ==
    Compounds(FieldPredicates \cup Compounds(FieldPredicates)) \cup NestedAsts

\* A generator whose field-name mapper allows every name and renames
\* release_time to time.
RenamingGenerator == [mapFieldName |-> "rename", mapFieldValue |-> "default"]

InitStructured ==
    /\ SqlIdle
    /\ PjIdle
    /\ PsIdle
    /\ HmIdle
    /\ esGen \in Generators \cup {RenamingGenerator}
    /\ esOrig \in StructuredAsts
    /\ esAst = esOrig
    /\ esCalls = [c \in Calls |-> IF c = 1 THEN CallAt("call") ELSE CallAt("idle")]

SpecStructure == (InitElastic \/ InitStructured) /\ [][NextElastic]_vars

(***************************************************************************)
(* A caller parses an input of up to MaxPredicates field predicates and    *)
(* lowers the AST with ConvertAST.                                         *)
(***************************************************************************)
MaxPredicates == 3

ParserInputs ==
    UNION {{Input(preds, conns) : preds \in [1..n -> FieldPredicates],
                                  conns \in [1..(n - 1) -> {"or", " "}]} :
           n \in 1..MaxPredicates}

InitParser ==
    /\ SqlIdle
    /\ HmIdle
    /\ esGen \in {DefaultGenerator, RenamingGenerator}
    /\ esOrig = NilNode
    /\ esAst = NilNode
    /\ esCalls = [c \in Calls |-> CallAt("idle")]
    /\ PjIdle
    /\ psInput \in ParserInputs
    /\ psPc = "parse"

\* n, err := kqlfilter.ParseAST(input), before g.ConvertAST(n)
CallParseAST ==
    /\ psPc = "parse"
    /\ esOrig' = ParseAST(psInput)
    /\ esAst' = ParseAST(psInput)
    /\ esCalls' = [esCalls EXCEPT ![1] = CallAt("call")]
    /\ psPc' = "done"
    /\ UNCHANGED <<psInput, esGen>>
    /\ UNCHANGED <<sqlVars, hmVars, pjVars>>

NextParser == CallParseAST \/ ConvertAST

SpecParser == InitParser /\ [][NextParser]_vars

(***************************************************************************)
(* Two callers of ConvertAST on one AST, the calls taken step by step and  *)
(* interleaved.  A step is what a call does up to its next access to a     *)
(* Value field that a call assigns: in                                     *)
(*     lit.Value, err = q.mapFieldValue(id, lit.Value)                     *)
(* the read of lit.Value with the call of the mapper (ReadAndMap) and the  *)
(* assignment (Store), and the later read of lit.Value that builds the     *)
(* query (Load).  The ASTs are a plain node, the Not of one, or an And or  *)
(* an Or of plain nodes.                                                   *)
(***************************************************************************)
ConcurrentAsts == TreesOver(PlainNodes)

IsCompound(ast) == ast.kind \in {"And", "Or", "Not"}

\* The nodes a call converts one after the other, and where they are.
RootNodes(ast) == IF IsCompound(ast) THEN ast.Nodes ELSE <<ast>>
NodePath(ast, child) == IF IsCompound(ast) THEN <<child>> ELSE <<>>

\* The LiteralNodes of an Is or Range node that a call maps, and where the
\* one at position elem is.
Literals(node) == IF node.Nodes[1].kind = "Or" THEN node.Nodes[1].Nodes ELSE node.Nodes
LiteralPath(ast, child, elem) ==
    NodePath(ast, child)
    \o (IF RootNodes(ast)[child].Nodes[1].kind = "Or" THEN <<1, elem>> ELSE <<1>>)

RECURSIVE NodeAt(_, _)
NodeAt(node, path) ==
    IF path = <<>> THEN node ELSE NodeAt(node.Nodes[Head(path)], Tail(path))

\* lit.Value = value, lit being the node at path.
RECURSIVE SetValue(_, _, _)
SetValue(node, path, value) ==
    IF path = <<>> THEN [node EXCEPT !.Value = value]
    ELSE [node EXCEPT !.Nodes[Head(path)] = SetValue(@, Tail(path), value)]

\* A string whose pointer and length come from two different assignments.
Torn == <<"?">>

\* What call c can read in the Value at path: the string that is there, or,
\* when the other call is about to assign a string of another length to it
\* without any synchronisation, the two words of the string out of step.
ReadValue(c, path) ==
    LET value == NodeAt(esAst, path).Value
        o == CHOOSE x \in Calls : x # c
        racing == /\ esCalls[o].pc = "store"
                  /\ LiteralPath(esAst, esCalls[o].child, esCalls[o].elem) = path
                  /\ Len(esCalls[o].tmp.v) # Len(value)
    IN {value} \cup (IF racing THEN {Torn} ELSE {})

InitConcurrent ==
    /\ SqlIdle
    /\ PjIdle
    /\ PsIdle
    /\ HmIdle
    /\ esGen \in Generators
    /\ esOrig \in ConcurrentAsts
    /\ esAst = esOrig
    /\ esCalls = [c \in Calls |-> CallAt("node")]

\* return types.Query{}, err
ReturnErr(call, err) == [call EXCEPT !.pc = "done", !.ret = [q |-> ZeroQuery, err |-> err]]

\* clauses = append(clauses, q), and on to the next child or to the return.
NextNode(call, q) ==
    [call EXCEPT !.clauses = Append(@, q), !.vals = <<>>, !.elem = 1,
                 !.child = @ + 1,
                 !.pc = IF call.child < Len(RootNodes(esAst)) THEN "node" ELSE "return"]

\* convertNodeToQuery on a child: a LiteralNode is lowered; for an IsNode or
\* a RangeNode the field name is mapped.
EnterNode(c) ==
    LET call == esCalls[c]
        node == RootNodes(esAst)[call.child]
        name == mapFieldName(esGen, node.Identifier)
    IN /\ call.pc = "node"
       /\ esCalls' = [esCalls EXCEPT ![c] =
            IF node.kind = "Literal"
            THEN IF node.Value \notin {True, False}
                 THEN ReturnErr(call, Err("only boolean literals are supported; %s",
                                          "", node.Value))
                 ELSE NextNode(call, IF node.Value = True THEN MatchAllQuery
                                     ELSE MatchNoneQuery)
            ELSE IF name.err # NoErr
            THEN ReturnErr(call, IF node.kind = "Is" THEN WrapErr(name.v, name.err)
                                 ELSE name.err)
            ELSE [call EXCEPT !.id = name.v, !.pc = "map"]]
       /\ UNCHANGED <<esGen, esOrig, esAst>>
       /\ UNCHANGED <<sqlVars, hmVars, pjVars, psVars>>

\* q.mapFieldValue(id, lit.Value)
ReadAndMap(c) ==
    LET call == esCalls[c]
    IN /\ call.pc = "map"
       /\ \E value \in ReadValue(c, LiteralPath(esAst, call.child, call.elem)) :
            esCalls' = [esCalls EXCEPT ![c].tmp = mapFieldValue(esGen, call.id, value),
                                       ![c].pc = "store"]
       /\ UNCHANGED <<esGen, esOrig, esAst>>
       /\ UNCHANGED <<sqlVars, hmVars, pjVars, psVars>>

\* lit.Value, err = ...; if err != nil { return }
Store(c) ==
    LET call == esCalls[c]
        stored == [call EXCEPT !.wrote = TRUE]
    IN /\ call.pc = "store"
       /\ esAst' = SetValue(esAst, LiteralPath(esAst, call.child, call.elem), call.tmp.v)
       /\ esCalls' = [esCalls EXCEPT ![c] =
            IF call.tmp.err # NoErr
            THEN ReturnErr(stored, WrapErr(call.id, call.tmp.err))
            ELSE [stored EXCEPT !.pc = "load"]]
       /\ UNCHANGED <<esGen, esOrig>>
       /\ UNCHANGED <<sqlVars, hmVars, pjVars, psVars>>

\* The use of lit.Value: vals = append(vals, lit.Value), Value: lit.Value,
\* convertRangeNode(n.Operator, lit).
Load(c) ==
    LET call == esCalls[c]
        node == RootNodes(esAst)[call.child]
        path == LiteralPath(esAst, call.child, call.elem)
    IN /\ call.pc = "load"
       /\ \E value \in ReadValue(c, path) :
            LET r == convertRangeNode(call.id, node.Operator, value, path)
                vals == Append(call.vals, value)
            IN esCalls' = [esCalls EXCEPT ![c] =
                 IF node.kind = "Range"
                 THEN IF r.err # NoErr THEN ReturnErr(call, WrapErr(call.id, r.err))
                      ELSE NextNode(call, r.rq)
                 ELSE IF node.Nodes[1].kind = "Literal"
                 THEN NextNode(call, TermQuery(call.id, value))
                 ELSE IF call.elem < Len(Literals(node))
                 THEN [call EXCEPT !.vals = vals, !.elem = @ + 1, !.pc = "map"]
                 ELSE NextNode(call, TermsQuery(call.id, vals))]
       /\ UNCHANGED <<esGen, esOrig, esAst>>
       /\ UNCHANGED <<sqlVars, hmVars, pjVars, psVars>>

\* return types.Query{Bool: ...}, nil, or the return of the root's own query.
Return(c) ==
    LET call == esCalls[c]
        q == CASE esAst.kind = "And" -> BoolQuery("must", call.clauses)
               [] esAst.kind = "Or" -> BoolQuery("should", call.clauses)
               [] esAst.kind = "Not" -> BoolQuery("must_not", call.clauses)
               [] OTHER -> call.clauses[1]
    IN /\ call.pc = "return"
       /\ esCalls' = [esCalls EXCEPT ![c].pc = "done", ![c].ret = [q |-> q, err |-> NoErr]]
       /\ UNCHANGED <<esGen, esOrig, esAst>>
       /\ UNCHANGED <<sqlVars, hmVars, pjVars, psVars>>

NextConcurrent ==
    \E c \in Calls : EnterNode(c) \/ ReadAndMap(c) \/ Store(c) \/ Load(c) \/ Return(c)

SpecConcurrent == InitConcurrent /\ [][NextConcurrent]_vars

(***************************************************************************)
(* A caller projects an AST on a Filter, as Parse does with the AST of its *)
(* input, and a caller lowers a Filter of two clauses whose second clause  *)
(* is on a field without a config.  The AST is nil, a node, or an And of   *)
(* up to MaxChildren children.                                             *)
(***************************************************************************)
MaxChildren == 3

AndChildren ==
    {IsNode("f", LiteralNode(<<"1">>)),
     IsNode("g", LiteralNode(<<"1">>)),
     IsNode("f", OrNode(<<LiteralNode(<<"1">>), LiteralNode(<<"2">>)>>)),
     IsNode("f", NestedNode(IsNode("g", LiteralNode(<<"1">>)))),
     RangeNode("f", ">=", LiteralNode(<<"2">>)),
     RangeNode("g", "???", LiteralNode(<<"2">>)),
     LiteralNode(TrueLiteral),
     LiteralNode(<<"a">>),
     NotNode(IsNode("f", LiteralNode(<<"1">>))),
     OrNode(<<IsNode("f", LiteralNode(<<"1">>)), IsNode("g", LiteralNode(<<"1">>))>>),
     AndNode(<<IsNode("f", LiteralNode(<<"1">>)), IsNode("g", LiteralNode(<<"1">>))>>)}

RootOnlyNodes ==
    {IsNode("f", OrNode(<<LiteralNode(<<"1">>), IsNode("g", LiteralNode(<<"1">>))>>)),
     IsNode("f", OrNode(<<>>)),
     RangeNode("g", "<", OrNode(<<LiteralNode(<<"1">>), LiteralNode(<<"2">>)>>)),
     RangeNode("g", "<", LiteralNode(<<"2">>)),
     RangeNode("g", "<=", LiteralNode(<<"2">>)),
     RangeNode("g", ">", LiteralNode(<<"2">>)),
     LiteralNode(FalseLiteral),
     NotNode(IsNode("f", OrNode(<<LiteralNode(<<"1">>), LiteralNode(<<"2">>)>>))),
     NotNode(RangeNode("f", ">=", LiteralNode(<<"2">>))),
     NotNode(LiteralNode(TrueLiteral)),
     NotNode(NotNode(IsNode("f", LiteralNode(<<"1">>)))),
     NotNode(AndNode(<<IsNode("f", LiteralNode(<<"1">>)), IsNode("g", LiteralNode(<<"1">>))>>)),
     NotNode(OrNode(<<IsNode("f", LiteralNode(<<"1">>)), IsNode("g", LiteralNode(<<"1">>))>>))}

ProjectionAsts ==
    {NilNode} \cup AndChildren \cup RootOnlyNodes
    \cup {AndNode(nodes) : nodes \in UNION {[1..k -> AndChildren] : k \in 0..MaxChildren}}

UnknownSecondField ==
    <<Clause("a", "=", <<<<"a">>>>), Clause("u", "=", <<<<"a">>>>)>>

InitProjection ==
    /\ EnterToSpannerSQL(UnknownSecondField, [k \in {"a"} |-> Permissive("STRING")])
    /\ HmIdle
    /\ EsIdle
    /\ pjAst \in ProjectionAsts
    /\ pjRet = FilterOk(<<>>)
    /\ pjPc = "call"
    /\ PsIdle

\* filter, err := convertToFilter(ast)
CallConvertToFilter ==
    /\ pjPc = "call"
    /\ pjRet' = convertToFilter(pjAst)
    /\ pjPc' = "done"
    /\ UNCHANGED pjAst
    /\ UNCHANGED <<sqlVars, hmVars, esVars, psVars>>

NextProjection == LowerClause \/ ReturnRequiredMissing \/ ReturnResult \/ CallConvertToFilter

SpecProjection == (InitProjection \/ InitFeatures) /\ [][NextProjection]_vars

(***************************************************************************)
(* Claims about Filter.ToSpannerSQL.                                       *)
(***************************************************************************)
Returned == pc = "done"
Succeeded == pc = "done" /\ ret.err = NoErr

\* The placeholder name KQL<i>.
KQL(i) == <<"KQL", i>>

PlaceholderKeys(n) == {KQL(i) : i \in 0..(n - 1)}

ResolvedConfig(clause) == (CHOOSE r \in Resolutions(fieldConfigs, clause.Field) : TRUE).cfg

\* The positions of the clauses that are not dropped (Ignore), in order.
KeptClauses ==
    LET kept == {j \in 1..Len(filter) : ~ResolvedConfig(filter[j]).Ignore}
    IN [i \in 1..Cardinality(kept) |->
          CHOOSE j \in kept : Cardinality({k \in kept : k < j}) = i - 1]

\* Whether a predicate has the shape the clause's operator is lowered to,
\* on the clause's column.
LoweringOf(pred, clause) ==
    LET fieldConfig == ResolvedConfig(clause)
    IN /\ pred.col = (IF fieldConfig.ColumnName = "" THEN clause.Field
                      ELSE fieldConfig.ColumnName)
       /\ clause.Operator = "IN" => pred.fmt = "in" /\ pred.op = "IN"
       /\ clause.Operator = "<@" => pred.fmt = "containedby"
       /\ clause.Operator = ">@" => pred.fmt = "contains"
       /\ clause.Operator = "=" => pred.fmt \in {"cmp", "lower"} /\ pred.op \in {"=", " LIKE "}
       /\ clause.Operator = "!=" => pred.fmt \in {"cmp", "lower"} /\ pred.op \in {"!=", " NOT LIKE "}
       /\ clause.Operator \in {"<", "<=", ">", ">="} =>
            pred.fmt = "cmp" /\ pred.op = clause.Operator

ConvertedValues(fieldConfig, values) ==
    [i \in 1..Len(values) |->
       IF fieldConfig.MapValue = "nil" THEN convertValue(fieldConfig, values[i]).v
       ELSE LET m == ApplyMapValue(fieldConfig.MapValue, values[i]).v
            IN IF Len(values) = 1 /\ m.t = "string"
               THEN convertValue(fieldConfig, m.v).v
               ELSE m]

\* The elements of seq that are equal (Go's ==) to no earlier element, in order.
FirstOccurrences(seq) ==
    LET first == {i \in 1..Len(seq) : ~\E j \in 1..(i - 1) : GoEq(seq[j], seq[i])}
    IN [k \in 1..Cardinality(first) |->
          seq[CHOOSE i \in first : Cardinality({j \in first : j < i}) = k - 1]]

IsArrayCall ==
    /\ Len(filter) = 1
    /\ filter[1].Operator \in {"IN", "<@", ">@"}
    /\ ResolvedConfig(filter[1]).ColumnType \in {"STRING", "INT64", "FLOAT64", "TIMESTAMP"}
    /\ ~ResolvedConfig(filter[1]).Ignore

BothReturned == pc = "done" /\ prev # <<>>

\* C3: two calls of ToSpannerSQL with the same Filter and the same
\* fieldConfigs return the same predicates, the same parameters and the same
\* error (here: for filters of at least one clause).
C3_TwoCallsSameResult ==
    (BothReturned /\ filter = prev[1].filter /\ Len(filter) >= 1) => ret = prev[1].ret

\* Every alias of the config map is listed by one entry and is not a key.
AliasesUnambiguous ==
    \A k \in DOMAIN fieldConfigs : \A i \in 1..Len(fieldConfigs[k].Aliases) :
        LET alias == fieldConfigs[k].Aliases[i]
        IN /\ alias \notin DOMAIN fieldConfigs
           /\ \A k2 \in DOMAIN fieldConfigs \ {k} :
                 ~Contains(fieldConfigs[k2].Aliases, alias)

\* C4: a filter and the filter in which the field of one clause, a key of
\* the config map, is replaced by an alias of that config, return the same
\* predicates and the same parameters (here: when every alias belongs to one
\* config only).
C4_AliasSameOutput ==
    (/\ BothReturned
     /\ AliasesUnambiguous
     /\ filter \in AliasVariants(prev[1].filter, fieldConfigs))
    => /\ ret.condAnds = prev[1].ret.condAnds
       /\ ret.params = prev[1].ret.params

\* The loop is at a clause whose field resolves to a config with Ignore.
AtIgnoredClause ==
    /\ pc = "loop"
    /\ clauseIdx <= Len(filter)
    /\ \A r \in Resolutions(fieldConfigs, filter[clauseIdx].Field) : r.ok /\ r.cfg.Ignore

\* C12: a clause whose field resolves to a config with Ignore is dropped:
\* the loop goes on to the next clause with the same predicates, parameters
\* and placeholder index, whatever the operator and the values of the clause,
\* and the placeholders of a successful call are KQL0.. without a gap.
C12_IgnoredClauseDropped ==
    /\ [](Succeeded => DOMAIN ret.params = PlaceholderKeys(Len(KeptClauses)))
    /\ [][AtIgnoredClause =>
            /\ pc' = "loop"
            /\ clauseIdx' = clauseIdx + 1
            /\ UNCHANGED <<condAnds, params, paramIndex, ret>>]_vars

\* A successful call on two clauses, the first one ignored although its
\* operator does not take two values or its value is no INT64.
C12_Witness ==
    /\ Succeeded
    /\ Len(filter) = 2
    /\ ResolvedConfig(filter[1]).Ignore
    /\ \/ Len(filter[1].Values) = 2 /\ filter[1].Operator = "="
       \/ filter[1].Field = "b" /\ filter[1].Values = <<<<"a">>>>
    /\ Len(ret.condAnds) = 1
    /\ DOMAIN ret.params = {KQL(0)}

\* The loop is at a clause whose field is no key of the config map and no
\* alias of a config.
AtUnresolvedClause ==
    /\ pc = "loop"
    /\ clauseIdx <= Len(filter)
    /\ filter[clauseIdx].Field \notin DOMAIN fieldConfigs
    /\ \A k \in DOMAIN fieldConfigs :
          ~Contains(fieldConfigs[k].Aliases, filter[clauseIdx].Field)

\* C13: a clause whose field is neither a key nor an alias makes
\* ToSpannerSQL return the unknown-field error, unless it is the clause
\* (1, =, ["0"]) or (1, =, ["1"]), which is lowered to the predicate
\* 1=@KQL<i> with the parameter int64 0 or 1.
C13_UnknownFieldOrBooleanLiteral ==
    [][AtUnresolvedClause =>
         LET clause == filter[clauseIdx]
         IN IF /\ clause.Field = "1"
               /\ clause.Operator = "="
               /\ clause.Values \in {<<<<"0">>>>, <<<<"1">>>>}
            THEN /\ pc' = "loop"
                 /\ condAnds' = Append(condAnds, [fmt |-> "cmp", col |-> "1", op |-> "=",
                                                  param |-> KQL(paramIndex)])
                 /\ DOMAIN params' = DOMAIN params \cup {KQL(paramIndex)}
                 /\ params'[KQL(paramIndex)] =
                      GoInt64(IF clause.Values[1] = <<"0">> THEN 0 ELSE 1)
                 /\ paramIndex' = paramIndex + 1
            ELSE /\ pc' = "done"
                 /\ ret' = RetErr(Err("unknown field: %s", clause.Field, <<>>))]_vars

\* A successful call whose second clause is the boolean literal 1=0.
C13_Witness ==
    /\ Succeeded
    /\ Len(filter) = 2
    /\ filter[2] = Clause("1", "=", <<<<"0">>>>)
    /\ ret.condAnds[2].col = "1"
    /\ ret.params[KQL(1)] = GoInt64(0)

\* The loop is at a clause that is not ignored and whose operator needs a
\* flag that the config the field resolves to does not set.
AtUngatedOperator ==
    /\ pc = "loop"
    /\ clauseIdx <= Len(filter)
    /\ \A r \in Resolutions(fieldConfigs, filter[clauseIdx].Field) :
          LET operator == filter[clauseIdx].Operator
          IN /\ r.ok
             /\ ~r.cfg.Ignore
             /\ \/ operator = "!=" /\ ~r.cfg.AllowNegation
                \/ operator \in {"<", "<=", ">", ">="} /\ ~r.cfg.AllowRanges
                \/ operator = "<@" /\ ~r.cfg.AllowContainedBy
                \/ operator = ">@" /\ ~r.cfg.AllowContains

\* C14: an operator whose enabling flag is not set on the resolved config
\* (!= without AllowNegation, a range operator without AllowRanges, <@ without
\* AllowContainedBy, >@ without AllowContains) makes the call return an error
\* and no predicate, whatever the rest of the config is.
C14_OperatorNeedsFlag ==
    [][AtUngatedOperator =>
           /\ pc' = "done"
           /\ ret'.err # NoErr
           /\ ret'.condAnds = <<>>
           /\ DOMAIN ret'.params = {}]_vars

\* The same step when the call does not abort in mapValues: the only way out
\* of an operator without its flag is the error return.
C14_RejectedUnlessAborted ==
    [][AtUngatedOperator =>
           \/ pc' = "done" /\ ret'.err # NoErr /\ ret'.condAnds = <<>>
           \/ /\ pc' = "panic"
              /\ \A r \in Resolutions(fieldConfigs, filter[clauseIdx].Field) :
                    r.cfg.MapValue = "null"]_vars

\* The loop is at an IN clause that is not ignored, on a config without a
\* MapValue hook and without AllowMultipleValues.
AtInWithoutMultipleValues ==
    /\ pc = "loop"
    /\ clauseIdx <= Len(filter)
    /\ filter[clauseIdx].Operator = "IN"
    /\ \A r \in Resolutions(fieldConfigs, filter[clauseIdx].Field) :
          r.ok /\ ~r.cfg.Ignore /\ ~r.cfg.AllowMultipleValues /\ r.cfg.MapValue = "nil"

\* C15: an IN clause on a config with AllowMultipleValues=false makes the call
\* return an error, whatever AllowContains and AllowContainedBy are and
\* however many values the clause has; no IN UNNEST predicate is added.
C15_InNeedsMultipleValues ==
    [][AtInWithoutMultipleValues =>
           /\ pc' = "done"
           /\ ret'.err # NoErr
           /\ ret'.condAnds = <<>>]_vars

\* A string with every backslash, underscore and percent sign preceded by a
\* backslash.
RECURSIVE LikeEscaped(_)
LikeEscaped(s) ==
    IF s = <<>> THEN <<>>
    ELSE (IF Head(s) \in {"\\", "_", "%"} THEN <<"\\", Head(s)>> ELSE <<Head(s)>>)
         \o LikeEscaped(Tail(s))

EndsInStar(s) ==
    /\ Len(s) >= 1
    /\ s[Len(s)] = "*"
    /\ Len(s) >= 2 => s[Len(s) - 1] # "\\"

StartsWithStar(s) == Len(s) >= 1 /\ s[1] = "*"

\* The loop is at an = or != clause of one value that the switch accepts, on
\* a STRING column without a MapValue hook.
AtStringEquality ==
    /\ pc = "loop"
    /\ clauseIdx <= Len(filter)
    /\ filter[clauseIdx].Operator \in {"=", "!="}
    /\ Len(filter[clauseIdx].Values) = 1
    /\ \A r \in Resolutions(fieldConfigs, filter[clauseIdx].Field) :
          /\ r.ok
          /\ ~r.cfg.Ignore
          /\ r.cfg.ColumnType = "STRING"
          /\ r.cfg.MapValue = "nil"
          /\ r.cfg.Requires = <<>>
          /\ filter[clauseIdx].Operator = "!=" => r.cfg.AllowNegation

\* The predicate and the parameter value that the wildcard rules give the
\* clause at the loop position.
WildcardLowering ==
    LET clause == filter[clauseIdx]
        cfg == ResolvedConfig(clause)
        value == clause.Values[1]
        prefix == cfg.AllowPrefixMatch /\ EndsInStar(value)
        suffix == cfg.AllowSuffixMatch /\ StartsWithStar(value)
        body == SubSeq(value, IF suffix THEN 2 ELSE 1,
                       IF prefix THEN Len(value) - 1 ELSE Len(value))
        columnName == IF cfg.ColumnName = "" THEN clause.Field ELSE cfg.ColumnName
        like == IF clause.Operator = "!=" THEN " NOT LIKE " ELSE " LIKE "
    IN IF prefix \/ suffix
       THEN [pred |-> Pred(IF cfg.AllowCaseInsensitiveMatch THEN "lower" ELSE "cmp",
                           columnName, like, KQL(paramIndex)),
             value |-> GoString((IF suffix THEN <<"%">> ELSE <<>>) \o LikeEscaped(body)
                                \o (IF prefix THEN <<"%">> ELSE <<>>))]
       ELSE [pred |-> Pred("cmp", columnName, clause.Operator, KQL(paramIndex)),
             value |-> GoString(value)]

WildcardLowered ==
    /\ pc' = "loop"
    /\ condAnds' = Append(condAnds, WildcardLowering.pred)
    /\ DOMAIN params' = DOMAIN params \cup {KQL(paramIndex)}
    /\ params'[KQL(paramIndex)] = WildcardLowering.value

\* C16: an = or != clause on a string value is lowered to LIKE exactly when
\* the value ends in an unescaped * and AllowPrefixMatch is set, or starts
\* with * and AllowSuffixMatch is set; the parameter is then the escaped
\* value with those stars replaced by %.  Otherwise the predicate is the
\* plain comparison and the parameter is the value unchanged.
C16_WildcardRewriting ==
    [][AtStringEquality => WildcardLowered]_vars

\* The same step when the call does not abort on the value * with both
\* flags set.
C16_RewritingUnlessAborted ==
    [][AtStringEquality =>
           \/ WildcardLowered
           \/ /\ pc' = "panic"
              /\ filter[clauseIdx].Values = <<<<"*">>>>
              /\ ResolvedConfig(filter[clauseIdx]).AllowPrefixMatch
              /\ ResolvedConfig(filter[clauseIdx]).AllowSuffixMatch]_vars

\* A call that lowered *a* with both flags, case-insensitively and negated.
C16_BothStarsLowered ==
    /\ Succeeded
    /\ filter = <<Clause("a", "!=", <<<<"*", "a", "*">>>>)>>
    /\ ret.condAnds = <<Pred("lower", "ColA", " NOT LIKE ", KQL(0))>>
    /\ ret.params[KQL(0)] = GoString(<<"%", "a", "%">>)

\* C17: a call of ToSpannerSQL never aborts: it is under way or it has
\* returned, with a result or with an error value.
C17_NeverAborts == pc # "panic"

\* The aborts there are: a clause with an empty value list never aborts; an
\* abort is at a value that a MapValue hook mapped to nil on a config with
\* none of the three slice flags, or at the value * with both match flags.
C17_AbortsOnlyOnNilOrStar ==
    pc = "panic" =>
        LET clause == filter[clauseIdx]
            cfg == ResolvedConfig(clause)
        IN /\ clause.Values # <<>>
           /\ \/ /\ cfg.MapValue = "null"
                 /\ ~(cfg.AllowMultipleValues \/ cfg.AllowContains \/ cfg.AllowContainedBy)
                 /\ Len(clause.Values) = 1
              \/ /\ clause.Values = <<<<"*">>>>
                 /\ clause.Operator \in {"=", "!="}
                 /\ cfg.AllowPrefixMatch /\ cfg.AllowSuffixMatch

\* C18: a call that returns an error returns nothing else: the Filter of a
\* failed projection has no clauses, and the predicate list and parameter
\* map of a failed ToSpannerSQL are nil.
C18_NoPartialOutput ==
    /\ (pjPc = "done" /\ pjRet.err # NoErr) => pjRet.Clauses = <<>>
    /\ (Returned /\ ret.err # NoErr) =>
          ret.condAnds = <<>> /\ ret.params = EmptyMap /\ ret.paramsNil

\* Both calls failed after a first success: the projection at the third child
\* of an And whose first two children are projected, the lowering at the
\* second clause, after the first one gave a predicate and a parameter.
C18_Witness ==
    /\ pjPc = "done"
    /\ pjRet.err # NoErr
    /\ pjAst.kind = "And"
    /\ Len(pjAst.Nodes) = 3
    /\ convertToFilter(pjAst.Nodes[1]).err = NoErr
    /\ convertToFilter(pjAst.Nodes[1]).Clauses # <<>>
    /\ convertToFilter(pjAst.Nodes[2]).err = NoErr
    /\ Returned
    /\ ret.err # NoErr
    /\ clauseIdx = 2
    /\ condAnds # <<>>
    /\ DOMAIN params # {}

\* A call with one clause, on a field whose config sets no ColumnType and no
\* MapValue hook, has returned.
ReturnedOnUnspecifiedColumn ==
    /\ Returned
    /\ Len(filter) = 1
    /\ \A r \in Resolutions(fieldConfigs, filter[1].Field) :
          /\ r.ok
          /\ ~r.cfg.Ignore
          /\ r.cfg.ColumnType = "UNSPECIFIED"
          /\ r.cfg.MapValue = "nil"

\* C19: a config that sets no ColumnType behaves as a STRING column: the
\* parameter of an = clause is the raw value as a string, "0" and "1"
\* included, and an IN clause with AllowMultipleValues is lowered to
\* IN UNNEST of the strings.
C19_UnspecifiedColumnIsString ==
    ReturnedOnUnspecifiedColumn =>
        LET clause == filter[1]
            cfg == ResolvedConfig(clause)
        IN /\ (clause.Operator = "=" /\ Len(clause.Values) = 1) =>
                 /\ ret.err = NoErr
                 /\ ret.condAnds = <<Pred("cmp", clause.Field, "=", KQL(0))>>
                 /\ ret.params[KQL(0)] = GoString(clause.Values[1])
           /\ (clause.Operator = "IN" /\ cfg.AllowMultipleValues) =>
                 /\ ret.err = NoErr
                 /\ ret.condAnds = <<Pred("in", clause.Field, "IN", KQL(0))>>

\* A call with one clause, on a field whose config has a MapValue hook, has
\* returned.
ReturnedOnMappedField ==
    /\ Returned
    /\ Len(filter) = 1
    /\ \A r \in Resolutions(fieldConfigs, filter[1].Field) :
          r.ok /\ ~r.cfg.Ignore /\ r.cfg.MapValue # "nil"

\* What the hook of the config returns for the raw values of the clause.
MappedValues ==
    [i \in 1..Len(filter[1].Values) |->
        ApplyMapValue(ResolvedConfig(filter[1]).MapValue, filter[1].Values[i])]

\* C20: the result of the MapValue hook is the parameter value, without
\* coercion by column type: for an = clause of one value that the hook maps
\* to a string or an int64 the parameter is that mapped value; for an IN
\* clause of several values that is lowered the parameter holds the mapped
\* values; and an error of the hook is an error of the call.
C20_MappedValueUsedAsIs ==
    ReturnedOnMappedField =>
        LET clause == filter[1]
            failed == \E i \in 1..Len(clause.Values) : MappedValues[i].err # NoErr
        IN /\ failed => ret.err # NoErr
           /\ ( /\ ~failed
                /\ clause.Operator = "="
                /\ Len(clause.Values) = 1
                /\ MappedValues[1].v.t \in {"string", "int64"} ) =>
                 /\ ret.err = NoErr
                 /\ ret.params[KQL(0)] = MappedValues[1].v
           /\ ( /\ ~failed
                /\ clause.Operator = "IN"
                /\ Len(clause.Values) > 1
                /\ ret.err = NoErr ) =>
                 ret.params[KQL(0)].v =
                     FirstOccurrences([i \in 1..Len(clause.Values) |-> MappedValues[i].v])

\* The same statement without the clause of one value on a column that is
\* not a STRING column: there a mapped string is coerced by column type.
C20_MappedUnlessSingleString ==
    (ReturnedOnMappedField
        /\ ~( /\ Len(filter[1].Values) = 1
              /\ MappedValues[1].v.t = "string"
              /\ ResolvedConfig(filter[1]).ColumnType # "STRING" ))
    => C20_MappedValueUsedAsIs

\* The projection has returned.
Projected == pjPc = "done"

\* The field of the clause that a node of the flat grammar stands for: the
\* identifier of an Is or a Range, also under a Not, and "1" for a literal.
NodeField(node) ==
    CASE node.kind \in {"Is", "Range"} -> node.Identifier
      [] node.kind = "Not" -> node.Nodes[1].Identifier
      [] node.kind = "Literal" -> "1"
      [] OTHER -> ""

\* C21: a Filter that the projection returns without error has no field in
\* more than two clauses, and an And with three or more children on one
\* field, the field "1" of the boolean literals included, is rejected.
C21_FieldAtMostTwice ==
    Projected =>
        /\ pjRet.err = NoErr =>
              \A i \in 1..Len(pjRet.Clauses) :
                  Cardinality({j \in 1..Len(pjRet.Clauses) :
                                  pjRet.Clauses[j].Field = pjRet.Clauses[i].Field}) <= 2
        /\ ( /\ pjAst.kind = "And"
             /\ \E i \in 1..Len(pjAst.Nodes) :
                   /\ NodeField(pjAst.Nodes[i]) # ""
                   /\ Cardinality({j \in 1..Len(pjAst.Nodes) :
                                     NodeField(pjAst.Nodes[j]) = NodeField(pjAst.Nodes[i])}) >= 3 )
            => pjRet.err # NoErr

\* Three boolean literals are rejected for the count of the field "1".
C21_Witness ==
    /\ Projected
    /\ pjAst = AndNode(<<LiteralNode(TrueLiteral), LiteralNode(TrueLiteral),
                         LiteralNode(TrueLiteral)>>)
    /\ pjRet = FilterErr(Err("field count maximum in filter exceeded", "", <<>>))

\* C22: in a Filter that the projection returns without error every clause
\* has one of the nine operators, and a clause whose operator is not IN, <@
\* or >@ has exactly one value.
C22_ClausesWellFormed ==
    (Projected /\ pjRet.err = NoErr) =>
        \A i \in 1..Len(pjRet.Clauses) :
            /\ pjRet.Clauses[i].Operator \in Operators
            /\ pjRet.Clauses[i].Operator \notin {"IN", "<@", ">@"} =>
                  Len(pjRet.Clauses[i].Values) = 1

\* An And of an Is on a list, a Not and an Is is projected on an IN clause of
\* two values, a != clause and an = clause.
C22_Witness ==
    /\ Projected
    /\ pjRet.err = NoErr
    /\ Len(pjAst.Nodes) = 3
    /\ pjRet.Clauses = <<Clause("f", "IN", <<<<"1">>, <<"2">>>>),
                         Clause("f", "!=", <<<<"1">>>>),
                         Clause("g", "=", <<<<"1">>>>)>>

FlatKinds == {"Is", "Range", "Not", "Literal"}

HasNestedValue(node) == node.kind = "Is" /\ node.Nodes[1].kind = "Nested"

\* C23: the projection accepts only nil, a single Is, Range, Not or Literal,
\* or an And of those; an Or at the top or in the And, an And in the And and
\* an Is on a Nested value are rejected with an error.
C23_FlatGrammarOnly ==
    Projected =>
        /\ pjRet.err = NoErr =>
              \/ pjAst.kind \in {"nil"} \cup FlatKinds
              \/ /\ pjAst.kind = "And"
                 /\ \A i \in 1..Len(pjAst.Nodes) : pjAst.Nodes[i].kind \in FlatKinds
        /\ ( \/ pjAst.kind = "Or"
             \/ HasNestedValue(pjAst)
             \/ /\ pjAst.kind = "And"
                /\ \E i \in 1..Len(pjAst.Nodes) :
                      \/ pjAst.Nodes[i].kind \in {"Or", "And"}
                      \/ HasNestedValue(pjAst.Nodes[i]) )
            => pjRet.err # NoErr /\ pjRet.Clauses = <<>>

\* An And whose second child is an And is rejected after its first child was
\* converted.
C23_Witness ==
    /\ Projected
    /\ pjAst.kind = "And"
    /\ Len(pjAst.Nodes) = 2
    /\ pjAst.Nodes[1] = IsNode("f", LiteralNode(<<"1">>))
    /\ pjAst.Nodes[2].kind = "And"
    /\ pjRet = FilterErr(Err("unsupported node type %T", "", <<"And">>))

\* The fields that clause j needs as companions and that are the field of
\* no clause of the filter, for a config the clause resolves to.
AbsentCompanions(j) ==
    UNION {{r.cfg.Requires[i] : i \in 1..Len(r.cfg.Requires)} :
             r \in {x \in Resolutions(fieldConfigs, filter[j].Field) : x.ok}}
    \ {filter[k].Field : k \in 1..Len(filter)}

\* C11: when a clause resolves, by key or by alias, to a config whose
\* Requires names a field that is the field of no clause, ToSpannerSQL
\* returns an error; and it returns the companion error only when a clause
\* resolves to a config with Requires.
C11_RequiresCompanion ==
    Returned =>
      /\ (\E j \in 1..Len(filter) : AbsentCompanions(j) # {}) => ret.err # NoErr
      /\ ret.err.kind = "%s can only be used in this filter in combination with %s" =>
           \E j \in 1..Len(filter) :
              \E r \in Resolutions(fieldConfigs, filter[j].Field) : r.cfg.Requires # <<>>

(***************************************************************************)
(* Claims about HasMustEqual.  A document gives every field one value; a   *)
(* document satisfies an Is when the field has one of its values, a Range  *)
(* when the field compares so as a number, the literal true always.        *)
(***************************************************************************)
DocValues == {<<"1">>, <<"2">>, <<"3">>}

Documents == [HmFields -> DocValues]

\* The literal strings of the value of an Is node: one literal or a list.
LiteralValues(isNode) ==
    LET value == isNode.Nodes[1]
    IN IF value.kind = "Literal" THEN <<value.Value>>
       ELSE [i \in 1..Len(value.Nodes) |-> value.Nodes[i].Value]

Elements(seq) == {seq[i] : i \in 1..Len(seq)}

RECURSIVE Satisfies(_, _)
Satisfies(doc, node) ==
    CASE node.kind = "And" -> \A i \in 1..Len(node.Nodes) : Satisfies(doc, node.Nodes[i])
      [] node.kind = "Or" -> \E i \in 1..Len(node.Nodes) : Satisfies(doc, node.Nodes[i])
      [] node.kind = "Not" -> ~Satisfies(doc, node.Nodes[1])
      [] node.kind = "Is" -> doc[node.Identifier] \in Elements(LiteralValues(node))
      [] node.kind = "Range" ->
           DecimalVal(doc[node.Identifier]) >= DecimalVal(node.Nodes[1].Value)
      [] node.kind = "Literal" -> node.Value = <<"t", "r", "u", "e">>
      [] OTHER -> TRUE

\* C6: when HasMustEqual returns a non-empty list, every document that
\* satisfies the AST has the field equal to a value of the list.
C6_HasMustEqualSound ==
    (hmPc = "done" /\ hmValues # <<>>) =>
      \A doc \in Documents :
         Satisfies(doc, hmAst) => doc[hmField] \in Elements(hmValues)

\* C7: for an Or node HasMustEqual returns the value lists of the children,
\* one after the other, when every child is an Is on the field, and nil
\* when a child is an Is on another field or a node of another kind.
C7_OrOfIsOnFieldOnly ==
    (hmPc = "done" /\ hmAst.kind = "Or") =>
      IF \A i \in 1..Len(hmAst.Nodes) :
            hmAst.Nodes[i].kind = "Is" /\ hmAst.Nodes[i].Identifier = hmField
      THEN hmValues = Concat([i \in 1..Len(hmAst.Nodes) |-> LiteralValues(hmAst.Nodes[i])])
      ELSE hmValues = <<>>

(***************************************************************************)
(* Claims about ConvertAST.                                                *)
(***************************************************************************)
\* C8: after ConvertAST returns, with a result or with an error, the AST is
\* what it was before the call.
C8_ConvertASTLeavesAstUnchanged ==
    (esCalls[1].pc = "done" /\ esCalls[2].pc = "idle") => esAst = esOrig

\* The strings a query holds: every *string replaced by the Value it points
\* to in the AST.
RECURSIVE Pointee(_, _)
Pointee(q, ast) ==
    [q EXCEPT !.value = IF @.t = "*string" THEN GoString(NodeAt(ast, @.v).Value) ELSE @,
              !.clauses = [i \in 1..Len(@) |-> Pointee(@[i], ast)]]

\* What one ConvertAST call returns on the AST as the callers got it.
RunAlone ==
    LET r == convertNodeToQuery(esGen, esOrig, "", <<>>)
    IN [q |-> Pointee(r.q, r.node), err |-> r.err]

\* C9: of two concurrent ConvertAST calls on one AST, none assigns to a
\* node of the AST, and each returns what a call alone returns on the AST
\* as it was.
C9_ConcurrentCallsIndependent ==
    \A c \in Calls :
       /\ ~esCalls[c].wrote
       /\ esCalls[c].pc = "done" =>
            [q |-> Pointee(esCalls[c].ret.q, esAst), err |-> esCalls[c].ret.err] = RunAlone

\* A call that no step of another call has interleaved with returns what
\* the call taken as one step returns.
StepsAgreeWithCall ==
    (esCalls[1].pc = "done" /\ esCalls[2] = CallAt("node")) =>
      LET r == convertNodeToQuery(esGen, esOrig, "", <<>>)
      IN esCalls[1].ret = [q |-> r.q, err |-> r.err] /\ esAst = r.node

\* C10: ToSpannerSQL returns a required-field-missing error exactly when the
\* filter has a clause, every clause was lowered, and a Required config has
\* neither its key nor an alias among the clause fields; for an empty filter
\* it returns no error and no predicates.
C10_RequiredNotAppliedToEmptyFilter ==
    Returned =>
      /\ ret.err.kind = "required field %s missing" <=>
           /\ Len(filter) >= 1
           /\ clauseIdx > Len(filter)
           /\ MissingRequired(filter, fieldConfigs) # {}
      /\ Len(filter) = 0 => ret = RetOk(<<>>, EmptyMap)

(***************************************************************************)
(* Claims about the structure of the query that ConvertAST returns.        *)
(***************************************************************************)
\* A ConvertAST call, the only one made, has returned without error.
Lowered == esCalls[1].pc = "done" /\ esCalls[2].pc = "idle" /\ esCalls[1].ret.err = NoErr

\* The query q of node has the shape of node, level by level: the list of a
\* bool query holds the queries of the children, one for one and in order.
RECURSIVE Preserves(_, _, _, _)
Preserves(node, q, prefix, path) ==
    CASE node.kind \in {"And", "Or"} ->
           /\ q.q = "bool"
           /\ q.op = (IF node.kind = "And" THEN "must" ELSE "should")
           /\ Len(q.clauses) = Len(node.Nodes)
           /\ \A i \in 1..Len(node.Nodes) :
                /\ q.clauses[i] =
                     convertNodeToQuery(esGen, node.Nodes[i], prefix, Append(path, i)).q
                /\ Preserves(node.Nodes[i], q.clauses[i], prefix, Append(path, i))
      [] node.kind = "Not" ->
           /\ q.q = "bool"
           /\ q.op = "must_not"
           /\ Len(q.clauses) = 1
           /\ q.clauses[1] =
                convertNodeToQuery(esGen, node.Nodes[1], prefix, Append(path, 1)).q
           /\ Preserves(node.Nodes[1], q.clauses[1], prefix, Append(path, 1))
      [] node.kind = "Is" /\ node.Nodes[1].kind = "Literal" ->
           /\ q.q = "term"
           /\ q.value = GoString(mapFieldValue(esGen, q.id, node.Nodes[1].Value).v)
      [] node.kind = "Is" /\ node.Nodes[1].kind = "Or" ->
           /\ q.q = "terms"
           /\ Len(q.vals) = Len(node.Nodes[1].Nodes)
           /\ \A i \in 1..Len(q.vals) :
                q.vals[i] = mapFieldValue(esGen, q.id, node.Nodes[1].Nodes[i].Value).v
      [] node.kind = "Is" /\ node.Nodes[1].kind = "Nested" ->
           Preserves(node.Nodes[1].Nodes[1], q,
                     mapFieldName(esGen, prefix \o node.Identifier).v \o ".",
                     path \o <<1, 1>>)
      [] OTHER -> TRUE

\* C24: the query ConvertAST returns has the boolean structure of the AST:
\* an And is a must list of its lowered children in order, an Or a should
\* list, a Not a must_not list of one element, an Is on a Literal a term
\* query and an Is on an Or of literals a terms query of the values in order.
C24_StructurePreserved ==
    Lowered => Preserves(esOrig, esCalls[1].ret.q, "", <<>>)

\* The Or of an And of two predicates and a third one is lowered to a should
\* list of two elements whose first element is a must list of two elements.
C24_Witness ==
    /\ Lowered
    /\ esOrig.kind = "Or"
    /\ esOrig.Nodes[1].kind = "And"
    /\ esOrig.Nodes[1].Nodes[2].Nodes[1].kind = "Or"
    /\ esOrig.Nodes[2].kind = "Is"
    /\ esCalls[1].ret.q.op = "should"
    /\ Len(esCalls[1].ret.q.clauses) = 2
    /\ esCalls[1].ret.q.clauses[1].op = "must"
    /\ Len(esCalls[1].ret.q.clauses[1].clauses) = 2
    /\ esCalls[1].ret.q.clauses[1].clauses[2].q = "terms"
    /\ esCalls[1].ret.q.clauses[1].clauses[2].vals = <<<<"2">>, <<"1">>>>

\* The AST with every Nested value written out: the predicates of the value
\* of Is(f, Nested(inner)) on the identifiers f.g, at every depth.
RECURSIVE Qualified(_, _)
Qualified(node, prefix) ==
    CASE node.kind = "Is" /\ node.Nodes[1].kind = "Nested" ->
           Qualified(node.Nodes[1].Nodes[1], prefix \o node.Identifier \o ".")
      [] node.kind \in {"Is", "Range"} ->
           [node EXCEPT !.Identifier = prefix \o node.Identifier]
      [] node.kind \in {"And", "Or", "Not"} ->
           [node EXCEPT !.Nodes = [i \in 1..Len(node.Nodes) |-> Qualified(node.Nodes[i], prefix)]]
      [] OTHER -> node

\* A ConvertAST call, the only one made, has returned from an Is on a Nested
\* value.
ReturnedFromNested ==
    /\ esCalls[1].pc = "done"
    /\ esCalls[2].pc = "idle"
    /\ esOrig.kind = "Is"
    /\ esOrig.Nodes[1].kind = "Nested"

\* What the call returns is what ConvertAST returns on the AST with the
\* Nested values written out.
SameAsQualified ==
    LET r == convertNodeToQuery(esGen, Qualified(esOrig, ""), "", <<>>)
    IN /\ Pointee(esCalls[1].ret.q, esAst) = Pointee(r.q, r.node)
       /\ esCalls[1].ret.err = r.err

\* C25: Is(f, Nested(inner)) is lowered as inner with every identifier g
\* replaced by f.g, at every depth: the mappers get the qualified names made
\* of the identifiers of the AST, so the query and the error are those of
\* the AST that spells the qualified names out.
C25_NestedIsQualified == ReturnedFromNested => SameAsQualified

\* The inner predicate of release_time:{g:(2 or 1)} is lowered on the field
\* time.g, the one of release_time.g:(2 or 1) on the field release_time.g.
C25_RenamedPrefix ==
    /\ ReturnedFromNested
    /\ esGen = RenamingGenerator
    /\ esOrig = IsNode("release_time", NestedNode(
                    IsNode("g", OrNode(<<LiteralNode(<<"2">>), LiteralNode(<<"1">>)>>))))
    /\ esCalls[1].ret = [q |-> TermsQuery("time.g", <<<<"2">>, <<"1">>>>), err |-> NoErr]
    /\ convertNodeToQuery(esGen, Qualified(esOrig, ""), "", <<>>).q
         = TermsQuery("release_time.g", <<<<"2">>, <<"1">>>>)

\* The same with the default field-name mapper, which returns the name it
\* gets.
C25_QualifiedUnlessRenamed ==
    (ReturnedFromNested /\ esGen.mapFieldName = "default") => SameAsQualified

\* An error of a mapper on a name under a Nested value is an error of the
\* call.
C25_MapperErrorAborts ==
    (ReturnedFromNested /\ esGen.mapFieldName = "example")
        => esCalls[1].ret.err # NoErr /\ esCalls[1].ret.q = ZeroQuery

(***************************************************************************)
(* Claims about the precedence of the parser.                              *)
(***************************************************************************)
\* ParseAST has returned the AST of an input `A B or C` of three field
\* predicates.
ParsedABorC ==
    /\ psPc = "done"
    /\ Len(psInput.preds) = 3
    /\ psInput.conns = <<" ", "or">>

\* The query of the node at path of the parsed AST.
QueryOf(node, path) == convertNodeToQuery(esGen, node, "", path).q

BothEnded == pc \in {"done", "panic"} /\ prev # <<>>

\* A call that ended with r returned predicates and parameters: r is not the
\* result of a return with an error nor that of a call that panicked.
ResultOk(r) == ~r.paramsNil

\* The (predicate, parameter value) pairs of a result, the placeholder of
\* each predicate replaced by the same name.
PredicatePairs(r) ==
    {<<[r.condAnds[i] EXCEPT !.param = KQL(0)], r.params[r.condAnds[i].param]>> :
        i \in DOMAIN r.condAnds}

\* The values that a result binds, whatever their placeholders.
BoundValues(r) == {r.params[k] : k \in DOMAIN r.params}

\* C27: when ToSpannerSQL succeeds on a filter it succeeds on every
\* permutation of its clauses and returns the same (predicate, parameter
\* value) pairs up to the names of the placeholders, and when it fails on
\* one order it fails on every order.
C27_OrderIndependent ==
    BothEnded =>
        LET first == prev[1].ret
            second == IF pc = "panic" THEN NoRet ELSE ret
        IN /\ ResultOk(first) <=> ResultOk(second)
           /\ ResultOk(first) =>
                /\ PredicatePairs(second) = PredicatePairs(first)
                /\ BoundValues(second) = BoundValues(first)
                /\ Len(second.condAnds) = Len(first.condAnds)

\* C27 on the config maps in which no alias is listed by two entries.
C27_OrderIndependentUnlessAmbiguous == AliasesUnambiguous => C27_OrderIndependent

(***************************************************************************)
(* Claims about the projection of a Not.                                   *)
(***************************************************************************)
\* The node is a Not over an Is on a literal.
IsNotOfIsLiteral(node) ==
    /\ node.kind = "Not"
    /\ node.Nodes[1].kind = "Is"
    /\ node.Nodes[1].Nodes[1].kind = "Literal"

\* The clause of a Not over an Is on a literal.
NotEqualClause(node) ==
    Clause(node.Nodes[1].Identifier, "!=", <<node.Nodes[1].Nodes[1].Value>>)

\* C28: the projection of Not(Is(f, Literal v)) is the single clause
\* (f, "!=", [v]), also as the child of an And, where it is the clause at the
\* place of the child; a Not over an Is on an Or list and a Not over a node
\* that is not an Is are rejected with an error.
C28_NotProjection ==
    Projected =>
        /\ IsNotOfIsLiteral(pjAst) => pjRet = FilterOk(<<NotEqualClause(pjAst)>>)
        /\ (pjAst.kind = "Not" /\ ~IsNotOfIsLiteral(pjAst)) =>
               pjRet.err # NoErr /\ pjRet.Clauses = <<>>
        /\ (pjAst.kind = "And" /\ pjRet.err = NoErr) =>
               \A i \in 1..Len(pjAst.Nodes) :
                   IsNotOfIsLiteral(pjAst.Nodes[i]) =>
                       pjRet.Clauses[i] = NotEqualClause(pjAst.Nodes[i])

\* `not f:1` was projected to the clause (f, "!=", [1]).
C28_Witness ==
    /\ Projected
    /\ pjAst = NotNode(IsNode("f", LiteralNode(<<"1">>)))
    /\ pjRet = FilterOk(<<Clause("f", "!=", <<<<"1">>>>)>>)

(***************************************************************************)
(* Claims about the operators that a column type supports.                 *)
(***************************************************************************)
RangeOperators == {"<", "<=", ">", ">="}

ArrayOperators == {"IN", "<@", ">@"}

\* The loop is at a clause that is not ignored and whose operator the column
\* type of the resolved config does not support: a range operator on a column
\* that is not INT64, FLOAT64 or TIMESTAMP, or IN, <@ or >@ on a column that
\* is not STRING, INT64, FLOAT64 or TIMESTAMP.
AtOperatorOfOtherColumnType ==
    /\ pc = "loop"
    /\ clauseIdx <= Len(filter)
    /\ \A r \in Resolutions(fieldConfigs, filter[clauseIdx].Field) :
          LET operator == filter[clauseIdx].Operator
          IN /\ r.ok
             /\ ~r.cfg.Ignore
             /\ \/ /\ operator \in RangeOperators
                   /\ r.cfg.ColumnType \notin {"INT64", "FLOAT64", "TIMESTAMP"}
                \/ /\ operator \in ArrayOperators
                   /\ r.cfg.ColumnType \notin {"STRING", "INT64", "FLOAT64", "TIMESTAMP"}

\* C29: a range operator on a column that is not INT64, FLOAT64 or TIMESTAMP,
\* and IN, <@ or >@ on a column that is not STRING, INT64, FLOAT64 or
\* TIMESTAMP, make the call return an error, whatever the Allow flags are.
C29_ColumnTypeRestrictsOperator ==
    [][AtOperatorOfOtherColumnType =>
           /\ pc' = "done"
           /\ ret'.err # NoErr
           /\ ret'.condAnds = <<>>]_vars

\* The same step when the call does not abort in mapValues: the only way out
\* of an operator that the column type does not support is the error return.
C29_RejectedUnlessAborted ==
    [][AtOperatorOfOtherColumnType =>
           \/ pc' = "done" /\ ret'.err # NoErr /\ ret'.condAnds = <<>>
           \/ /\ pc' = "panic"
              /\ \A r \in Resolutions(fieldConfigs, filter[clauseIdx].Field) :
                    /\ r.cfg.MapValue = "null"
                    /\ ~r.cfg.AllowMultipleValues
                    /\ ~r.cfg.AllowContains
                    /\ ~r.cfg.AllowContainedBy]_vars

\* A >= clause on a BOOL column with AllowRanges, or an IN clause on a BOOL
\* column with AllowMultipleValues, was rejected for the column type.
C29_RejectedForColumnType ==
    /\ pc = "done"
    /\ Len(filter) = 1
    /\ ret.err = Err("operator %s not supported for field type %s", "",
                     <<filter[1].Operator, "BOOL">>)
    /\ \/ filter[1].Operator = ">=" /\ fieldConfigs["a"].AllowRanges
       \/ filter[1].Operator = "IN" /\ fieldConfigs["a"].AllowMultipleValues

(***************************************************************************)
(* Claims about the first failure of ToSpannerSQL.                         *)
(***************************************************************************)
\* What the lowering of the j-th clause of the filter can give.
StepsOfClause(j) ==
    {lowerClause(filter, filter[j], resolved, 0) :
        resolved \in Resolutions(fieldConfigs, filter[j].Field)}

\* The clauses whose lowering returns an error.
InvalidClauses ==
    {j \in 1..Len(filter) : \A step \in StepsOfClause(j) : step.st = "err"}

\* The clauses whose lowering panics.
AbortingClauses ==
    {j \in 1..Len(filter) : \A step \in StepsOfClause(j) : step.st = "panic"}

EarliestOf(S) == CHOOSE j \in S : \A k \in S : j <= k

\* The call has ended: it has returned or it has panicked.
CallEnded == pc \in {"done", "panic"}

RequiredMissingReturned ==
    pc = "done" /\ ret.err.kind = "required field %s missing"

\* C30: when clauses are invalid the call returns the error of the earliest
\* of them, which names the field of that clause, and the loop has not gone
\* beyond that clause; a required-field-missing error is returned only when
\* the loop has lowered every clause without error.
C30_FirstFailureReturned ==
    /\ (CallEnded /\ InvalidClauses # {}) =>
          LET j == EarliestOf(InvalidClauses)
          IN /\ pc = "done"
             /\ clauseIdx = j
             /\ ret.err \in {step.err : step \in StepsOfClause(j)}
             /\ ret.err.field = filter[j].Field
    /\ RequiredMissingReturned =>
          InvalidClauses = {} /\ clauseIdx = Len(filter) + 1

\* The same, for a call that no clause before the earliest invalid one
\* aborts, and without the name of the field in the error.
C30_FirstFailureUnlessAborted ==
    /\ (CallEnded /\ InvalidClauses # {}) =>
          LET j == EarliestOf(InvalidClauses)
          IN \/ /\ pc = "done"
                /\ clauseIdx = j
                /\ ret.err \in {step.err : step \in StepsOfClause(j)}
                /\ ret.err.field \in {filter[j].Field, ""}
                /\ ret.err.field = "" =>
                      ret.err.kind \in {"operator %s not supported for field type %s",
                                        "cannot parse input to a slice",
                                        "values' type in any slice doesn't match the expectation"}
             \/ /\ pc = "panic"
                /\ clauseIdx < j
                /\ clauseIdx \in AbortingClauses
    /\ RequiredMissingReturned =>
          InvalidClauses = {} /\ clauseIdx = Len(filter) + 1

\* Two clauses are invalid and the error of the first is returned.
C30_TwoInvalidClauses ==
    /\ pc = "done"
    /\ InvalidClauses = {1, 2}
    /\ clauseIdx = 1
    /\ ret.err \in {step.err : step \in StepsOfClause(1)}
    /\ ret.err \notin {step.err : step \in StepsOfClause(2)}

\* Two clauses are invalid and the error of the first, which is returned,
\* does not name a field.
C30_UnnamedFieldReturned ==
    /\ C30_TwoInvalidClauses
    /\ ret.err.field = ""

\* The call panicked at a clause before the earliest invalid one.
C30_AbortedBeforeInvalid ==
    /\ pc = "panic"
    /\ InvalidClauses = {2}
    /\ clauseIdx = 1
=========================================================================
